---- MODULE Spec2Model ----
(***************************************************************************)
(* A model of the OPAQUE server (package opaque, internal/ake) together    *)
(* with the client side of registration and login.                         *)
(*                                                                         *)
(* Byte strings are sequences of atoms.  The output of a hash, MAC or KDF  *)
(* is a string of Size atoms whose first atom carries the primitive, the   *)
(* algorithm and the whole input (a free term algebra: two outputs are     *)
(* equal exactly when they were computed from equal inputs) and whose      *)
(* other atoms are continuation atoms.  Lengths are counted in atoms; the  *)
(* sizes of the primitives are scaled down (Sha256Size, Sha512Size, ...).  *)
(* Group elements are a point with a bag of scalar factors, so that        *)
(* scalar multiplication commutes as in a prime-order group.               *)
(***************************************************************************)
EXTENDS Bags, FiniteSets, Integers, Sequences, TLC

(***************************************************************************)
(* Sizes, in atoms.                                                        *)
(***************************************************************************)
Sha256Size == 1
Sha512Size == 2
RistrettoLength == 1
P256Length == 2
NonceLength == 1
SeedLength == 1

(* The opaque.Group identifiers, and names for the crypto.Hash and ksf     *)
(* identifiers.                                                            *)
RistrettoSha512 == 1
P256Sha256 == 3
SHA256 == "SHA256"
SHA512 == "SHA512"
Argon2id == "Argon2id"
KSFIdentity == "Identity"

(***************************************************************************)
(* Encoding.                                                               *)
(***************************************************************************)
Nil == << >>

Byte(n) == <<"b", n>>

Tag(s) == << <<"tag", s>> >>

Str(s) == << <<"str", s>> >>

Ext(i) == <<"ext", i>>

Pow256(k) == IF k = 0 THEN 1 ELSE IF k = 1 THEN 256 ELSE 65536

I2OSP(n, L) == [i \in 1..L |-> Byte((n \div Pow256(L - i)) % 256)]

EncodeVectorLen(v, L) == I2OSP(Len(v), L) \o v

EncodeVector(v) == EncodeVectorLen(v, 2)

SuffixString(a, t) == a \o t

RECURSIVE Concatenate(_)
Concatenate(parts) ==
    IF parts = << >> THEN << >> ELSE Head(parts) \o Concatenate(Tail(parts))

Concat3(a, b, c) == a \o b \o c

(* RandomBytes: length atoms of the draw called name. *)
RandomBytes(name, length) == [i \in 1..length |-> <<"rnd", name, i>>]

(* A fixed-size output: the first atom carries the term, the rest follow it. *)
Block(head, n) == [i \in 1..n |-> IF i = 1 THEN head ELSE Ext(i)]

(***************************************************************************)
(* Primitive adapters: hash, KDF (HKDF), MAC (HMAC), KSF.                  *)
(***************************************************************************)
HashSize(h) == IF h = SHA256 THEN Sha256Size ELSE Sha512Size

(* The transcript hash is a random oracle: oracle is the sequence of the  *)
(* distinct strings it was summed on, and a digest names its string by   *)
(* its position.  Query records a string, HashSum is the digest of a     *)
(* recorded string.                                                       *)
Query(oracle, written) ==
    IF \E i \in 1..Len(oracle) : oracle[i] = written THEN oracle ELSE Append(oracle, written)

HashSum(oracle, h, written) ==
    Block(<<"hash", h, CHOOSE i \in 1..Len(oracle) : oracle[i] = written>>, HashSize(h))

KDFExtract(h, salt, ikm) == Block(<<"prk", h, salt, ikm>>, HashSize(h))

KDFExpand(h, key, info, length) == Block(<<"okm", h, key, info>>, length)

MACMAC(h, key, msg) == Block(<<"mac", h, key, msg>>, HashSize(h))

MACEqual(a, b) == a = b

KSFHarden(k, password, salt, length) ==
    IF k = KSFIdentity THEN password ELSE Block(<<"ksf", k, password, salt>>, length)

(***************************************************************************)
(* Group: scalars are terms, elements are a point and a bag of factors.    *)
(***************************************************************************)
ZeroScalar == <<"zero">>

Sk(name) == <<"sk", name>>

HashToScalar(g, input, dst) == <<"h2s", g, input, dst>>

Base(g) == [g |-> g, pt |-> <<"base">>, e |-> EmptyBag]

HashToGroup(g, input, dst) == [g |-> g, pt |-> <<"h2g", input, dst>>, e |-> EmptyBag]

Multiply(el, s) == [el EXCEPT !.e = @ (+) SetToBag({s})]

(* Multiplication by the inverse of s. *)
Divide(el, s) ==
    IF BagIn(s, el.e) THEN [el EXCEPT !.e = @ (-) SetToBag({s})]
    ELSE [el EXCEPT !.e = @ (+) SetToBag({<<"inv", s>>})]

ElementLength(g) == IF g = RistrettoSha512 THEN RistrettoLength ELSE P256Length

ScalarLength(g) == ElementLength(g)

SerializePoint(el) == Block(<<"pt", el>>, ElementLength(el.g))

SerializeScalar(s, g) == Block(<<"sc", s>>, ScalarLength(g))

(* Scalar.Decode: the canonical encodings of the group's scalars. *)
ScalarDecodes(g, enc) ==
    /\ Len(enc) = ScalarLength(g)
    /\ enc[1][1] = "sc"
    /\ enc = SerializeScalar(enc[1][2], g)

DecodeScalar(enc) == enc[1][2]

(* Element.Decode: the canonical encodings of the group's elements. *)
ElementDecodes(g, enc) ==
    /\ Len(enc) = ElementLength(g)
    /\ enc[1][1] = "pt"
    /\ enc[1][2].g = g
    /\ enc = SerializePoint(enc[1][2])

DecodeElement(enc) == enc[1][2]

(***************************************************************************)
(* Configuration.toInternal: the parameters derived from a Configuration   *)
(* [OPRF, AKE, KSF, KDF, MAC, Hash, Context].                              *)
(***************************************************************************)
EnvelopeSize(c) == NonceLength + HashSize(c.MAC)

(* The hash registered for the OPRF suite of a group. *)
OPRFHash(id) == IF id = P256Sha256 THEN SHA256 ELSE SHA512

(***************************************************************************)
(* Domain separation tags.                                                 *)
(***************************************************************************)
VersionTag == Tag("OPAQUEv1-")
LabelPrefix == Tag("OPAQUE-")
TagHandshake == Tag("HandshakeSecret")
TagSessionKey == Tag("SessionKey")
TagMacServer == Tag("ServerMAC")
TagMacClient == Tag("ClientMAC")
TagExpandOPRF == Tag("OprfKey")
TagDeriveKeyPair == Tag("OPAQUE-DeriveKeyPair")
TagDeriveDH == Tag("OPAQUE-DeriveDiffieHellmanKeyPair")
TagCredentialResponsePad == Tag("CredentialResponsePad")
TagAuthKey == Tag("AuthKey")
TagExportKey == Tag("ExportKey")
TagMaskingKey == Tag("MaskingKey")
TagExpandPrivateKey == Tag("PrivateKey")
TagDerivePrivateKey == Tag("OPAQUE-DeriveAuthKeyPair")
TagOPRFFinalize == Tag("Finalize")
TagHashToGroup == Tag("HashToGroup-")

(***************************************************************************)
(* OPRF, base mode.                                                        *)
(***************************************************************************)
contextString(id) == Tag("OPRFV1-") \o I2OSP(0, 1) \o I2OSP(id, 2)

DeriveKey(id, input, dst) == HashToScalar(id, input, dst)

OPRFBlind(id, input, blind) ==
    Multiply(HashToGroup(id, input, TagHashToGroup \o contextString(id)), blind)

OPRFEvaluate(ku, element) == Multiply(element, ku)

(* The string Finalize hashes, and Finalize on an oracle that recorded it. *)
OPRFFinalizeInput(input, blind, evaluated) ==
    Concat3(EncodeVector(input),
            EncodeVector(SerializePoint(Divide(evaluated, blind))),
            TagOPRFFinalize)

OPRFFinalize(oracle, id, input, blind, evaluated) ==
    HashSum(oracle, OPRFHash(id), OPRFFinalizeInput(input, blind, evaluated))

(***************************************************************************)
(* Server: the OPRF evaluation and the credential response.                *)
(***************************************************************************)
(* oprfResponse that returns the blinded element as it came. *)
oprfResponseUnkeyed(c, element, oprfSeed, credentialIdentifier) == element

(* oprfResponse with one key per seed, whatever the credential identifier. *)
oprfResponseSeedOnly(c, element, oprfSeed, credentialIdentifier) ==
    OPRFEvaluate(DeriveKey(c.OPRF, KDFExpand(c.KDF, oprfSeed, TagExpandOPRF, SeedLength),
                           TagDeriveKeyPair),
                 element)

oprfResponse(c, element, oprfSeed, credentialIdentifier) ==
    LET seed == KDFExpand(c.KDF, oprfSeed,
                          SuffixString(credentialIdentifier, TagExpandOPRF), SeedLength)
        ku == DeriveKey(c.OPRF, seed, TagDeriveKeyPair)
    IN  OPRFEvaluate(ku, element)

RegistrationResponse(c, req, serverPublicKey, credentialIdentifier, oprfSeed) ==
    [EvaluatedMessage |-> oprfResponse(c, req.BlindedMessage, oprfSeed, credentialIdentifier),
     Pks |-> serverPublicKey]

(* The key-stream atom of position j of a pad. *)
PadAtom(pad, j) ==
    IF pad[j][1] = "ext" /\ j - pad[j][2] + 1 >= 1
    THEN <<pad[j - pad[j][2] + 1], pad[j][2]>>
    ELSE <<pad[j], 1>>

XorAtom(u, k) == IF u[1] = "xor" /\ u[3] = k THEN u[2] ELSE <<"xor", u, k>>

Xor(pad, in) == [j \in 1..Len(in) |-> XorAtom(in[j], PadAtom(pad, j))]

MaskPad(c, maskingNonce, maskingKey) ==
    KDFExpand(c.KDF, maskingKey, SuffixString(maskingNonce, TagCredentialResponsePad),
              ElementLength(c.AKE) + EnvelopeSize(c))

(* masking.Mask: a masking nonce that is not supplied is drawn at random. *)
Mask(c, maskingNonce, maskingKey, serverPublicKey, envelope, rnd) ==
    LET nonce == IF Len(maskingNonce) = 0
                 THEN RandomBytes(<<"mask", rnd>>, NonceLength)
                 ELSE maskingNonce
    IN  [maskingNonce |-> nonce,
         maskedResponse |-> Xor(MaskPad(c, nonce, maskingKey), serverPublicKey \o envelope)]

(* CredentialResponse that leaves an all-zero envelope out of the masked   *)
(* response.                                                               *)
credentialResponseNoZeroEnvelope(c, req, serverPublicKey, record, credentialIdentifier, oprfSeed, maskingNonce, rnd) ==
    LET envelope == IF \A j \in 1..Len(record.Envelope) : record.Envelope[j] = Byte(0)
                    THEN Nil ELSE record.Envelope
        m == Mask(c, maskingNonce, record.MaskingKey, serverPublicKey, envelope, rnd)
    IN  [EvaluatedMessage |-> oprfResponse(c, req.BlindedMessage, oprfSeed, credentialIdentifier),
         MaskingNonce |-> m.maskingNonce,
         MaskedResponse |-> m.maskedResponse]

credentialResponse(c, req, serverPublicKey, record, credentialIdentifier, oprfSeed, maskingNonce, rnd) ==
    LET m == Mask(c, maskingNonce, record.MaskingKey, serverPublicKey, record.Envelope, rnd)
    IN  [EvaluatedMessage |-> oprfResponse(c, req.BlindedMessage, oprfSeed, credentialIdentifier),
         MaskingNonce |-> m.maskingNonce,
         MaskedResponse |-> m.maskedResponse]

(***************************************************************************)
(* Message serialization.                                                  *)
(***************************************************************************)
SerializeCredentialRequest(req) == SerializePoint(req.BlindedMessage)

SerializeKE1(ke1) ==
    Concat3(SerializeCredentialRequest(ke1.CredentialRequest),
            ke1.ClientNonce,
            SerializePoint(ke1.ClientPublicKeyshare))

SerializeCredentialResponse(r) ==
    Concat3(SerializePoint(r.EvaluatedMessage), r.MaskingNonce, r.MaskedResponse)

(***************************************************************************)
(* 3DH.                                                                    *)
(***************************************************************************)
(* SetIdentities that leaves absent identities absent. *)
SetIdentitiesKept(identities, clientPublicKey, serverPublicKey) == identities

SetIdentities(identities, clientPublicKey, serverPublicKey) ==
    [ClientIdentity |-> IF identities.ClientIdentity = Nil
                        THEN SerializePoint(clientPublicKey)
                        ELSE identities.ClientIdentity,
     ServerIdentity |-> IF identities.ServerIdentity = Nil
                        THEN serverPublicKey
                        ELSE identities.ServerIdentity]

buildLabel(length, label, context) ==
    Concat3(I2OSP(length, 2),
            EncodeVectorLen(LabelPrefix \o label, 1),
            EncodeVectorLen(context, 1))

expand(h, secret, hkdfLabel) == KDFExpand(h, secret, hkdfLabel, HashSize(h))

expandLabel(h, secret, label, context) ==
    expand(h, secret, buildLabel(HashSize(h), label, context))

deriveSecret(h, secret, label, context) == expandLabel(h, secret, label, context)

(* The bytes initTranscript writes to the transcript hasher. *)
(* initTranscript without the context. *)
initTranscriptNoContext(c, identities, ke1, ke2) ==
    Concatenate(<<VersionTag,
                  EncodeVector(identities.ClientIdentity),
                  ke1,
                  EncodeVector(identities.ServerIdentity),
                  SerializeCredentialResponse(ke2.CredentialResponse),
                  ke2.ServerNonce,
                  SerializePoint(ke2.ServerPublicKeyshare)>>)

initTranscript(c, identities, ke1, ke2) ==
    Concatenate(<<VersionTag, EncodeVector(c.Context),
                  EncodeVector(identities.ClientIdentity), ke1,
                  EncodeVector(identities.ServerIdentity),
                  SerializeCredentialResponse(ke2.CredentialResponse),
                  ke2.ServerNonce,
                  SerializePoint(ke2.ServerPublicKeyshare)>>)

deriveKeys(h, ikm, context) ==
    LET prk == KDFExtract(h, Nil, ikm)
        handshakeSecret == deriveSecret(h, prk, TagHandshake, context)
    IN  [sessionSecret |-> deriveSecret(h, prk, TagSessionKey, context),
         serverMacKey |-> expandLabel(h, handshakeSecret, TagMacServer, Nil),
         clientMacKey |-> expandLabel(h, handshakeSecret, TagMacClient, Nil)]

(* k3dh that concatenates the products last to first. *)
k3dhReversed(p1, s1, p2, s2, p3, s3) ==
    Concat3(SerializePoint(Multiply(p3, s3)),
            SerializePoint(Multiply(p2, s2)),
            SerializePoint(Multiply(p1, s1)))

k3dh(p1, s1, p2, s2, p3, s3) ==
    Concat3(SerializePoint(Multiply(p1, s1)),
            SerializePoint(Multiply(p2, s2)),
            SerializePoint(Multiply(p3, s3)))

(* core3DH from the sum of the preamble on: the hasher holds `transcript`, *)
(* whose digest `preamble` gave the keys; the server MAC is written to it   *)
(* and it is summed again.                                                 *)
core3DHMACs(oracle2, c, transcript, preamble, keys) ==
    LET serverMac == MACMAC(c.MAC, keys.serverMacKey, preamble)
        oracle3 == Query(oracle2, transcript \o serverMac)
        transcript3 == HashSum(oracle3, c.Hash, transcript \o serverMac)
    IN  [sessionSecret |-> keys.sessionSecret,
         serverMac |-> serverMac,
         clientMac |-> MACMAC(c.MAC, keys.clientMacKey, transcript3),
         written |-> transcript \o serverMac,
         oracle |-> oracle3]

(* core3DH with the transcript written: the hasher holds `transcript`. *)
core3DHSum(oracle2, c, ikm, transcript) ==
    core3DHMACs(oracle2, c, transcript,
                HashSum(oracle2, c.Hash, transcript),
                deriveKeys(c.KDF, ikm, HashSum(oracle2, c.Hash, transcript)))

(* core3DH on a transcript hasher that already holds `written`: the hasher *)
(* is written to and summed, never reset.                                  *)
core3DH(oracle, c, written, identities, ikm, ke1, ke2) ==
    core3DHSum(Query(oracle, written \o initTranscript(c, identities, ke1, ke2)),
               c, ikm, written \o initTranscript(c, identities, ke1, ke2))

(***************************************************************************)
(* ake.Server: the per-session values and the AKE state.                   *)
(*   Ake == [ephemeralSecretKey, nonce, clientMac, sessionSecret]          *)
(* A nil scalar is << >>, a set scalar is <<scalar>>.                      *)
(***************************************************************************)
akeNewServer ==
    [ephemeralSecretKey |-> << >>, nonce |-> Nil, clientMac |-> Nil, sessionSecret |-> Nil]

(* Options.init and values.setOptions: values not supplied are drawn at    *)
(* random (rnd names the draw).                                            *)
setOptions(ake, g, options, rnd) ==
    LET seed == IF options.KeyShareSeed = Nil
                THEN RandomBytes(<<"seed", rnd>>, SeedLength)
                ELSE options.KeyShareSeed
        nonceLen == IF options.NonceLength = 0 THEN NonceLength ELSE options.NonceLength
        nonce == IF options.Nonce = Nil
                 THEN RandomBytes(<<"nonce", rnd>>, nonceLen)
                 ELSE options.Nonce
    IN  [ake EXCEPT !.ephemeralSecretKey = <<DeriveKey(g, seed, TagDeriveDH)>>,
                    !.nonce = nonce]

(* values.flush *)
valuesFlush(ake) == [ake EXCEPT !.ephemeralSecretKey = << >>, !.nonce = Nil]

(* ake.Server.Response on a server whose transcript hasher holds `written`. *)
(* The end of Response: the outputs r of core3DH are stored in the server  *)
(* v and the server MAC is set in ke2.                                     *)
ResponseStore(v, ke2, r) ==
    [ake |-> [v EXCEPT !.sessionSecret = r.sessionSecret, !.clientMac = r.clientMac],
     written |-> r.written,
     oracle |-> r.oracle,
     ke2 |-> [ke2 EXCEPT !.ServerMac = r.serverMac]]

(* Response once setOptions has set the values of the server v. *)
ResponseKE2(oracle, v, written, c, identities, serverSecretKey, clientPublicKey, ke1, response) ==
    LET esk == v.ephemeralSecretKey[1]
        ke2 == [CredentialResponse |-> response,
                ServerNonce |-> v.nonce,
                ServerPublicKeyshare |-> Multiply(Base(c.AKE), esk),
                ServerMac |-> Nil]
        ikm == k3dh(ke1.ClientPublicKeyshare, esk,
                    ke1.ClientPublicKeyshare, serverSecretKey,
                    clientPublicKey, esk)
    IN  ResponseStore(v, ke2,
                      core3DH(oracle, c, written, identities, ikm, SerializeKE1(ke1), ke2))

Response(oracle, ake, written, c, identities, serverSecretKey, clientPublicKey, ke1, response, options, rnd) ==
    ResponseKE2(oracle, setOptions(ake, c.AKE, options, rnd), written, c, identities,
                serverSecretKey, clientPublicKey, ke1, response)

(* Finalize comparing the lengths of the MACs only. *)
FinalizeLengthOnly(ake, c, ke3) == Len(ake.clientMac) = Len(ke3.ClientMac)

(* Finalize that also accepts a KE3 without a MAC. *)
FinalizeEmptyAccepted(ake, c, ke3) ==
    ke3.ClientMac = Nil \/ MACEqual(ake.clientMac, ke3.ClientMac)

Finalize(ake, c, ke3) == MACEqual(ake.clientMac, ke3.ClientMac)

akeSessionKey(ake) == ake.sessionSecret

akeExpectedMAC(ake) == ake.clientMac

(* SerializeState that writes the session secret first. *)
akeSerializeStateSwapped(ake) == ake.sessionSecret \o ake.clientMac

akeSerializeState(ake) == ake.clientMac \o ake.sessionSecret

(* SetState that replaces whatever state there is. *)
SetStateOverwrite(ake, clientMac, sessionSecret) ==
    [err |-> "ok",
     ake |-> [ake EXCEPT !.clientMac = clientMac, !.sessionSecret = sessionSecret]]

(* SetState: [err, ake] *)
SetState(ake, clientMac, sessionSecret) ==
    IF Len(ake.clientMac) # 0 \/ Len(ake.sessionSecret) # 0
    THEN [err |-> "errStateNotEmpty", ake |-> ake]
    ELSE [err |-> "ok",
          ake |-> [ake EXCEPT !.clientMac = clientMac, !.sessionSecret = sessionSecret]]

(* Flush that leaves the session secret in place. *)
akeFlushKeepsSecret(ake) == [valuesFlush(ake) EXCEPT !.clientMac = Nil]

akeFlush(ake) == [valuesFlush(ake) EXCEPT !.clientMac = Nil, !.sessionSecret = Nil]

(***************************************************************************)
(* opaque.Server == [keyMaterial, Ake, hash]: keyMaterial is << >> (nil)   *)
(* or <<[serverIdentity, serverSecretKey, serverPublicKey, oprfSeed]>>;    *)
(* hash is what has been written to the transcript hasher of s.conf.       *)
(* Every operation returns the error and the server after the call.        *)
(***************************************************************************)
NewServer == [keyMaterial |-> << >>, Ake |-> akeNewServer, hash |-> Nil]

(* SetKeyMaterial that installs the secret key and the seed before it     *)
(* looks at the public key.                                                *)
SetKeyMaterialAssignFirst(sv, c, serverIdentity, serverSecretKey, serverPublicKey, oprfSeed) ==
    LET installed == [sv EXCEPT !.keyMaterial =
                        <<[serverIdentity |-> serverIdentity,
                           serverSecretKey |-> DecodeScalar(serverSecretKey),
                           serverPublicKey |-> serverPublicKey,
                           oprfSeed |-> oprfSeed]>>]
    IN  IF ~ScalarDecodes(c.AKE, serverSecretKey)
        THEN [err |-> "InvalidSecretKey", srv |-> sv]
        ELSE IF DecodeScalar(serverSecretKey) = ZeroScalar
        THEN [err |-> "ErrZeroSKS", srv |-> sv]
        ELSE IF Len(oprfSeed) # HashSize(c.Hash)
        THEN [err |-> "ErrInvalidOPRFSeedLength", srv |-> sv]
        ELSE IF Len(serverPublicKey) # ElementLength(c.AKE)
        THEN [err |-> "ErrInvalidPksLength", srv |-> installed]
        ELSE IF ~ElementDecodes(c.AKE, serverPublicKey)
        THEN [err |-> "InvalidPublicKey", srv |-> installed]
        ELSE [err |-> "ok", srv |-> installed]

SetKeyMaterial(sv, c, serverIdentity, serverSecretKey, serverPublicKey, oprfSeed) ==
    IF ~ScalarDecodes(c.AKE, serverSecretKey)
    THEN [err |-> "InvalidSecretKey", srv |-> sv]
    ELSE IF DecodeScalar(serverSecretKey) = ZeroScalar
    THEN [err |-> "ErrZeroSKS", srv |-> sv]
    ELSE IF Len(oprfSeed) # HashSize(c.Hash)
    THEN [err |-> "ErrInvalidOPRFSeedLength", srv |-> sv]
    ELSE IF Len(serverPublicKey) # ElementLength(c.AKE)
    THEN [err |-> "ErrInvalidPksLength", srv |-> sv]
    ELSE IF ~ElementDecodes(c.AKE, serverPublicKey)
    THEN [err |-> "InvalidPublicKey", srv |-> sv]
    ELSE [err |-> "ok",
          srv |-> [sv EXCEPT !.keyMaterial =
                      <<[serverIdentity |-> serverIdentity,
                         serverSecretKey |-> DecodeScalar(serverSecretKey),
                         serverPublicKey |-> serverPublicKey,
                         oprfSeed |-> oprfSeed]>>]]

NoOptions == [KeyShareSeed |-> Nil, Nonce |-> Nil, NonceLength |-> 0]

(* options is the variadic argument: << >> or <<GenerateKE2Options>>. *)
getGenerateKE2Options(options) ==
    IF Len(options) # 0
    THEN [op |-> [KeyShareSeed |-> options[1].KeyShareSeed,
                  Nonce |-> options[1].AKENonce,
                  NonceLength |-> options[1].AKENonceLength],
          maskingNonce |-> options[1].MaskingNonce]
    ELSE [op |-> NoOptions, maskingNonce |-> Nil]

(* What GenerateKE2 returns once Response returned r: the KE2, the server  *)
(* with the AKE state and the hasher Response left, and the identities.    *)
KE2Return(sv, identities, r) ==
    [err |-> "ok", ke2 |-> <<r.ke2>>,
     srv |-> [sv EXCEPT !.Ake = r.ake, !.hash = r.written],
     oracle |-> r.oracle,
     identities |-> <<identities>>]

(* GenerateKE2 that refuses a server whose session awaits its KE3. *)
GenerateKE2Guarded(oracle, sv, c, ke1, record, options, rnd) ==
    IF sv.keyMaterial = << >>
    THEN [err |-> "ErrNoServerKeyMaterial", ke2 |-> << >>, srv |-> sv, oracle |-> oracle,
          identities |-> << >>]
    ELSE IF Len(record.Envelope) # EnvelopeSize(c)
    THEN [err |-> "ErrInvalidEnvelopeLength", ke2 |-> << >>, srv |-> sv, oracle |-> oracle,
          identities |-> << >>]
    ELSE IF sv.Ake.clientMac # Nil
    THEN [err |-> "ErrInvalidState", ke2 |-> << >>, srv |-> sv, oracle |-> oracle,
          identities |-> << >>]
    ELSE
      LET km == sv.keyMaterial[1]
          o == getGenerateKE2Options(options)
          response == credentialResponse(c, ke1.CredentialRequest, km.serverPublicKey,
                                         record, record.CredentialIdentifier,
                                         km.oprfSeed, o.maskingNonce, rnd)
          identities == SetIdentities([ClientIdentity |-> record.ClientIdentity,
                                       ServerIdentity |-> km.serverIdentity],
                                      record.PublicKey, km.serverPublicKey)
      IN  KE2Return(sv, identities,
                    Response(oracle, sv.Ake, sv.hash, c, identities, km.serverSecretKey,
                             record.PublicKey, ke1, response, o.op, rnd))

(* GenerateKE2 that refuses only the envelopes that are too long. *)
GenerateKE2EnvelopeAtMost(oracle, sv, c, ke1, record, options, rnd) ==
    IF sv.keyMaterial = << >>
    THEN [err |-> "ErrNoServerKeyMaterial", ke2 |-> << >>, srv |-> sv, oracle |-> oracle,
          identities |-> << >>]
    ELSE IF Len(record.Envelope) > EnvelopeSize(c)
    THEN [err |-> "ErrInvalidEnvelopeLength", ke2 |-> << >>, srv |-> sv, oracle |-> oracle,
          identities |-> << >>]
    ELSE
      LET km == sv.keyMaterial[1]
          o == getGenerateKE2Options(options)
          response == credentialResponse(c, ke1.CredentialRequest, km.serverPublicKey,
                                         record, record.CredentialIdentifier,
                                         km.oprfSeed, o.maskingNonce, rnd)
          identities == SetIdentities([ClientIdentity |-> record.ClientIdentity,
                                       ServerIdentity |-> km.serverIdentity],
                                      record.PublicKey, km.serverPublicKey)
      IN  KE2Return(sv, identities,
                    Response(oracle, sv.Ake, sv.hash, c, identities, km.serverSecretKey,
                             record.PublicKey, ke1, response, o.op, rnd))

(* GenerateKE2 that draws the ephemeral key and the nonce of the session   *)
(* before it checks the key material and the record.                       *)
GenerateKE2OptionsFirst(oracle, sv, c, ke1, record, options, rnd) ==
    IF sv.keyMaterial = << >>
    THEN [err |-> "ErrNoServerKeyMaterial", ke2 |-> << >>,
          srv |-> [sv EXCEPT !.Ake = setOptions(sv.Ake, c.AKE,
                                                getGenerateKE2Options(options).op, rnd)],
          oracle |-> oracle, identities |-> << >>]
    ELSE IF Len(record.Envelope) # EnvelopeSize(c)
    THEN [err |-> "ErrInvalidEnvelopeLength", ke2 |-> << >>,
          srv |-> [sv EXCEPT !.Ake = setOptions(sv.Ake, c.AKE,
                                                getGenerateKE2Options(options).op, rnd)],
          oracle |-> oracle, identities |-> << >>]
    ELSE
      LET km == sv.keyMaterial[1]
          o == getGenerateKE2Options(options)
          response == credentialResponse(c, ke1.CredentialRequest, km.serverPublicKey,
                                         record, record.CredentialIdentifier,
                                         km.oprfSeed, o.maskingNonce, rnd)
          identities == SetIdentities([ClientIdentity |-> record.ClientIdentity,
                                       ServerIdentity |-> km.serverIdentity],
                                      record.PublicKey, km.serverPublicKey)
      IN  KE2Return(sv, identities,
                    Response(oracle, sv.Ake, sv.hash, c, identities, km.serverSecretKey,
                             record.PublicKey, ke1, response, o.op, rnd))

(* GenerateKE2 that checks the envelope before the key material. *)
GenerateKE2EnvelopeFirst(oracle, sv, c, ke1, record, options, rnd) ==
    IF Len(record.Envelope) # EnvelopeSize(c)
    THEN [err |-> "ErrInvalidEnvelopeLength", ke2 |-> << >>, srv |-> sv, oracle |-> oracle,
          identities |-> << >>]
    ELSE IF sv.keyMaterial = << >>
    THEN [err |-> "ErrNoServerKeyMaterial", ke2 |-> << >>, srv |-> sv, oracle |-> oracle,
          identities |-> << >>]
    ELSE
      LET km == sv.keyMaterial[1]
          o == getGenerateKE2Options(options)
          response == credentialResponse(c, ke1.CredentialRequest, km.serverPublicKey,
                                         record, record.CredentialIdentifier,
                                         km.oprfSeed, o.maskingNonce, rnd)
          identities == SetIdentities([ClientIdentity |-> record.ClientIdentity,
                                       ServerIdentity |-> km.serverIdentity],
                                      record.PublicKey, km.serverPublicKey)
      IN  KE2Return(sv, identities,
                    Response(oracle, sv.Ake, sv.hash, c, identities, km.serverSecretKey,
                             record.PublicKey, ke1, response, o.op, rnd))

(* A fake record whose envelope has the size of the tag alone. *)
FakeRecordTagOnly(i, credentialIdentifier, n) ==
    [PublicKey |-> Multiply(Base(i.AKE), Sk(<<"fake", n>>)),
     MaskingKey |-> RandomBytes(<<"fakemask", n>>, HashSize(i.KDF)),
     Envelope |-> [j \in 1..HashSize(i.MAC) |-> Byte(0)],
     CredentialIdentifier |-> credentialIdentifier,
     ClientIdentity |-> Nil]

(* Configuration.GetFakeRecord once toInternal has returned i: the n-th    *)
(* fake record, with a random key pair and a random masking key.           *)
FakeRecord(i, credentialIdentifier, n) ==
    [PublicKey |-> Multiply(Base(i.AKE), Sk(<<"fake", n>>)),
     MaskingKey |-> RandomBytes(<<"fakemask", n>>, HashSize(i.KDF)),
     Envelope |-> [j \in 1..(NonceLength + HashSize(i.MAC)) |-> Byte(0)],
     CredentialIdentifier |-> credentialIdentifier,
     ClientIdentity |-> Nil]

(* GenerateKE2: [err, ke2, srv, oracle, identities]; ke2 is << >> (nil)   *)
(* or <<KE2>>, identities are those the transcript was bound to.           *)
GenerateKE2(oracle, sv, c, ke1, record, options, rnd) ==
    IF sv.keyMaterial = << >>
    THEN [err |-> "ErrNoServerKeyMaterial", ke2 |-> << >>, srv |-> sv, oracle |-> oracle,
          identities |-> << >>]
    ELSE IF Len(record.Envelope) # EnvelopeSize(c)
    THEN [err |-> "ErrInvalidEnvelopeLength", ke2 |-> << >>, srv |-> sv, oracle |-> oracle,
          identities |-> << >>]
    ELSE
      LET km == sv.keyMaterial[1]
          o == getGenerateKE2Options(options)
          response == credentialResponse(c, ke1.CredentialRequest, km.serverPublicKey,
                                         record, record.CredentialIdentifier,
                                         km.oprfSeed, o.maskingNonce, rnd)
          identities == SetIdentities([ClientIdentity |-> record.ClientIdentity,
                                       ServerIdentity |-> km.serverIdentity],
                                      record.PublicKey, km.serverPublicKey)
      IN  KE2Return(sv, identities,
                    Response(oracle, sv.Ake, sv.hash, c, identities, km.serverSecretKey,
                             record.PublicKey, ke1, response, o.op, rnd))

(* LoginFinish with the test of Finalize inverted. *)
LoginFinishInverted(sv, c, ke3) ==
    IF Finalize(sv.Ake, c, ke3) THEN "ErrAkeInvalidClientMac" ELSE "ok"

LoginFinish(sv, c, ke3) ==
    IF ~Finalize(sv.Ake, c, ke3) THEN "ErrAkeInvalidClientMac" ELSE "ok"

SessionKey(sv) == akeSessionKey(sv.Ake)

ExpectedMAC(sv) == akeExpectedMAC(sv.Ake)

SerializeState(sv) == akeSerializeState(sv.Ake)

(* SetAKEState that splits the buffer at the size of the KDF. *)
SetAKEStateSplitAtKDF(sv, c, state) ==
    IF Len(state) # HashSize(c.MAC) + HashSize(c.KDF)
    THEN [err |-> "ErrInvalidState", srv |-> sv]
    ELSE LET r == SetState(sv.Ake,
                           SubSeq(state, 1, HashSize(c.KDF)),
                           SubSeq(state, HashSize(c.KDF) + 1, Len(state)))
         IN  [err |-> r.err, srv |-> [sv EXCEPT !.Ake = r.ake]]

(* SetAKEState that refuses only the buffers that are too short. *)
SetAKEStateShortOnly(sv, c, state) ==
    IF Len(state) < HashSize(c.MAC) + HashSize(c.KDF)
    THEN [err |-> "ErrInvalidState", srv |-> sv]
    ELSE LET r == SetState(sv.Ake,
                           SubSeq(state, 1, HashSize(c.MAC)),
                           SubSeq(state, HashSize(c.MAC) + 1, Len(state)))
         IN  [err |-> r.err, srv |-> [sv EXCEPT !.Ake = r.ake]]

SetAKEState(sv, c, state) ==
    IF Len(state) # HashSize(c.MAC) + HashSize(c.KDF)
    THEN [err |-> "ErrInvalidState", srv |-> sv]
    ELSE LET r == SetState(sv.Ake,
                           SubSeq(state, 1, HashSize(c.MAC)),
                           SubSeq(state, HashSize(c.MAC) + 1, Len(state)))
         IN  [err |-> r.err, srv |-> [sv EXCEPT !.Ake = r.ake]]

(* Flush that drops the key material with the session. *)
FlushAll(sv) == [sv EXCEPT !.Ake = akeFlush(sv.Ake), !.keyMaterial = << >>]

Flush(sv) == [sv EXCEPT !.Ake = akeFlush(sv.Ake)]

(***************************************************************************)
(* Client: registration and login (envelope, key recovery, 3DH).           *)
(***************************************************************************)
deriveAuthKeyPair(c, randomizedPwd, nonce) ==
    LET seed == KDFExpand(c.KDF, randomizedPwd,
                          SuffixString(nonce, TagExpandPrivateKey), SeedLength)
        sk == DeriveKey(c.AKE, seed, TagDerivePrivateKey)
    IN  [sk |-> sk, pk |-> Multiply(Base(c.AKE), sk)]

buildPRK(oracle, c, password, blind, evaluated) ==
    LET output == OPRFFinalize(oracle, c.OPRF, password, blind, evaluated)
        stretched == KSFHarden(c.KSF, output, Nil, HashSize(c.Hash))
    IN  KDFExtract(c.KDF, Nil, output \o stretched)

CleartextCredentials(serverPublicKey, serverIdentity, clientIdentity) ==
    Concat3(serverPublicKey, EncodeVector(serverIdentity), EncodeVector(clientIdentity))

authTag(c, randomizedPwd, nonce, credentials) ==
    MACMAC(c.MAC,
           KDFExpand(c.KDF, randomizedPwd, SuffixString(nonce, TagAuthKey), HashSize(c.KDF)),
           nonce \o credentials)

(* Envelope store: the registration record the client uploads. *)
(* keyrecovery.Store with the key pair kp derived: the record, and the    *)
(* oracle handed on.                                                       *)
Store(oracle2, c, randomizedPwd, envelopeNonce, clientIdentity, serverIdentity, pks, kp) ==
    LET ids == SetIdentities([ClientIdentity |-> clientIdentity,
                              ServerIdentity |-> serverIdentity], kp.pk, pks)
        creds == CleartextCredentials(pks, ids.ServerIdentity, ids.ClientIdentity)
    IN  [PublicKey |-> kp.pk,
         MaskingKey |-> KDFExpand(c.KDF, randomizedPwd, TagMaskingKey, HashSize(c.KDF)),
         Envelope |-> envelopeNonce \o authTag(c, randomizedPwd, envelopeNonce, creds),
         oracle |-> oracle2]

(* RegistrationFinalize with the randomized password built. *)
RegistrationStore(oracle2, c, randomizedPwd, envelopeNonce, clientIdentity, serverIdentity, pks) ==
    Store(oracle2, c, randomizedPwd, envelopeNonce, clientIdentity, serverIdentity, pks,
          deriveAuthKeyPair(c, randomizedPwd, envelopeNonce))

RegistrationFinalize(oracle, c, password, blind, envelopeNonce, clientIdentity, serverIdentity, resp) ==
    RegistrationStore(
        Query(oracle, OPRFFinalizeInput(password, blind, resp.EvaluatedMessage)),
        c,
        buildPRK(Query(oracle, OPRFFinalizeInput(password, blind, resp.EvaluatedMessage)),
                 c, password, blind, resp.EvaluatedMessage),
        envelopeNonce, clientIdentity, serverIdentity, resp.Pks)

GenerateKE1(c, password, blind, esk, nonce) ==
    [CredentialRequest |-> [BlindedMessage |-> OPRFBlind(c.OPRF, password, blind)],
     ClientNonce |-> nonce,
     ClientPublicKeyshare |-> Multiply(Base(c.AKE), esk)]

(* What GenerateKE3 returns when it fails with e. *)
KE3Fail(oracle2, e) ==
    [err |-> e, ke3 |-> << >>, sessionKey |-> Nil, oracle |-> oracle2, identities |-> << >>]

(* The end of GenerateKE3: r is what core3DH computed for the identities   *)
(* ids; the server MAC of ke2 is compared with it.                         *)
KE3Return(oracle2, ids, ke2, r) ==
    IF ~MACEqual(r.serverMac, ke2.ServerMac)
    THEN KE3Fail(r.oracle, "InvalidServerMAC")
    ELSE [err |-> "ok", ke3 |-> <<[ClientMac |-> r.clientMac]>>,
          sessionKey |-> r.sessionSecret, oracle |-> r.oracle,
          identities |-> <<ids>>]

(* keyrecovery.Recover and the 3DH of the client: the envelope <<nonce,    *)
(* tag>> and the server public key pks were unmasked, kp is the key pair   *)
(* derived from the envelope nonce.                                        *)
Recover(oracle2, c, randomizedPwd, esk, ke1, clientIdentity, serverIdentity, ke2, pks, nonce, tag, kp) ==
    LET ids == SetIdentities([ClientIdentity |-> clientIdentity,
                              ServerIdentity |-> serverIdentity], kp.pk, pks)
        creds == CleartextCredentials(pks, ids.ServerIdentity, ids.ClientIdentity)
        ikm == k3dh(ke2.ServerPublicKeyshare, esk,
                    DecodeElement(pks), esk,
                    ke2.ServerPublicKeyshare, kp.sk)
    IN  IF ~MACEqual(tag, authTag(c, randomizedPwd, nonce, creds))
        THEN KE3Fail(oracle2, "EnvelopeRecovery")
        ELSE IF ~ElementDecodes(c.AKE, pks)
        THEN KE3Fail(oracle2, "NonCanonicalEncoding")
        ELSE KE3Return(oracle2, ids, ke2,
                       core3DH(oracle2, c, Nil, ids, ikm, SerializeKE1(ke1), ke2))

(* masking.Unmask of the credential response `clear`, and the key pair of  *)
(* the envelope nonce.                                                     *)
Unmasked(oracle2, c, randomizedPwd, esk, ke1, clientIdentity, serverIdentity, ke2, clear) ==
    Recover(oracle2, c, randomizedPwd, esk, ke1, clientIdentity, serverIdentity, ke2,
            SubSeq(clear, 1, ElementLength(c.AKE)),
            SubSeq(clear, ElementLength(c.AKE) + 1, ElementLength(c.AKE) + NonceLength),
            SubSeq(clear, ElementLength(c.AKE) + NonceLength + 1, Len(clear)),
            deriveAuthKeyPair(c, randomizedPwd,
                SubSeq(clear, ElementLength(c.AKE) + 1, ElementLength(c.AKE) + NonceLength)))

(* GenerateKE3 with the randomized password built. *)
Unmask(oracle2, c, randomizedPwd, esk, ke1, clientIdentity, serverIdentity, ke2) ==
    Unmasked(oracle2, c, randomizedPwd, esk, ke1, clientIdentity, serverIdentity, ke2,
             Xor(MaskPad(c, ke2.CredentialResponse.MaskingNonce,
                         KDFExpand(c.KDF, randomizedPwd, TagMaskingKey, HashSize(c.KDF))),
                 ke2.CredentialResponse.MaskedResponse))

(* GenerateKE3 of a client that sent ke1: [err, ke3, sessionKey, oracle,   *)
(* identities], identities being those the transcript was bound to.        *)
GenerateKE3(oracle, c, password, blind, esk, ke1, clientIdentity, serverIdentity, ke2) ==
    IF Len(ke2.CredentialResponse.MaskedResponse) # ElementLength(c.AKE) + EnvelopeSize(c)
    THEN KE3Fail(Query(oracle, OPRFFinalizeInput(password, blind,
                                  ke2.CredentialResponse.EvaluatedMessage)),
                 "InvalidLength")
    ELSE Unmask(Query(oracle, OPRFFinalizeInput(password, blind,
                                  ke2.CredentialResponse.EvaluatedMessage)),
                c,
                buildPRK(Query(oracle, OPRFFinalizeInput(password, blind,
                                  ke2.CredentialResponse.EvaluatedMessage)),
                         c, password, blind, ke2.CredentialResponse.EvaluatedMessage),
                esk, ke1, clientIdentity, serverIdentity, ke2)

(***************************************************************************)
(* opaque.Configuration: the six identifiers as the application gives      *)
(* them (numbers), their verification, the internal configuration and the  *)
(* wire format.  OPRF, AKE and KSF are bytes; KDF, MAC and Hash are        *)
(* crypto.Hash values (unsigned integers) that the hash package and the    *)
(* wire format hold in one byte.                                           *)
(***************************************************************************)
confIDsLength == 6

P384Sha512 == 4
P521Sha512 == 5

(* Group.Available *)
GroupAvailable(g) == g \in {RistrettoSha512, P256Sha256, P384Sha512, P521Sha512}

(* oprf.Ciphersuite.Available and ecc.Group.Available *)
SuiteAvailable(g) == g \in {RistrettoSha512, P256Sha256, P384Sha512, P521Sha512}

(* byte(x), hash.Hash(x): the low eight bits. *)
ToByte(x) == x % 256

(* hash.Hash.Available: SHA-256, SHA-384, SHA-512 *)
HashAvailable(h) == h \in {5, 6, 7}

(* ksf.Identifier.Available: Argon2id, Scrypt, PBKDF2-SHA512 *)
KSFAvailable(k) == k \in {1, 2, 3}

(* verify without the range test on the hash identifiers. *)
verifyNoRange(c) ==
    IF ~GroupAvailable(c.OPRF) \/ ~SuiteAvailable(c.OPRF) THEN "errInvalidOPRFid"
    ELSE IF ~GroupAvailable(c.AKE) \/ ~SuiteAvailable(c.AKE) THEN "errInvalidAKEid"
    ELSE IF ~HashAvailable(ToByte(c.KDF)) THEN "errInvalidKDFid"
    ELSE IF ~HashAvailable(ToByte(c.MAC)) THEN "errInvalidMACid"
    ELSE IF ~HashAvailable(ToByte(c.Hash)) THEN "errInvalidHASHid"
    ELSE IF c.KSF # 0 /\ ~KSFAvailable(c.KSF) THEN "errInvalidKSFid"
    ELSE "ok"

verify(c) ==
    IF ~GroupAvailable(c.OPRF) \/ ~SuiteAvailable(c.OPRF) THEN "errInvalidOPRFid"
    ELSE IF ~GroupAvailable(c.AKE) \/ ~SuiteAvailable(c.AKE) THEN "errInvalidAKEid"
    ELSE IF c.KDF >= 25 \/ ~HashAvailable(ToByte(c.KDF)) THEN "errInvalidKDFid"
    ELSE IF c.MAC >= 25 \/ ~HashAvailable(ToByte(c.MAC)) THEN "errInvalidMACid"
    ELSE IF c.Hash >= 25 \/ ~HashAvailable(ToByte(c.Hash)) THEN "errInvalidHASHid"
    ELSE IF c.KSF # 0 /\ ~KSFAvailable(c.KSF) THEN "errInvalidKSFid"
    ELSE "ok"

(* internal.NewKDF, NewMac, NewHash and NewKSF: the adapter of an          *)
(* identifier.                                                             *)
NewHash(h) ==
    IF ToByte(h) = 5 THEN SHA256 ELSE IF ToByte(h) = 6 THEN "SHA384" ELSE SHA512

NewKSF(k) ==
    IF k = 0 THEN KSFIdentity
    ELSE IF k = 1 THEN Argon2id ELSE IF k = 2 THEN "Scrypt" ELSE "PBKDF2"

(* toInternal: [err, conf], conf being << >> (nil) or <<the internal       *)
(* configuration>>.                                                        *)
toInternal(c) ==
    IF verify(c) # "ok" THEN [err |-> verify(c), conf |-> << >>]
    ELSE [err |-> "ok",
          conf |-> <<[OPRF |-> c.OPRF, AKE |-> c.AKE, KSF |-> NewKSF(c.KSF),
                      KDF |-> NewHash(c.KDF), MAC |-> NewHash(c.MAC),
                      Hash |-> NewHash(c.Hash), Context |-> c.Context]>>]

(* Configuration.Deserializer: [err, out], out being << >> or              *)
(* <<Deserializer>>.                                                       *)
Deserializer(c) ==
    IF toInternal(c).err # "ok" THEN [err |-> toInternal(c).err, out |-> << >>]
    ELSE [err |-> "ok", out |-> <<[conf |-> toInternal(c).conf[1]]>>]

(* DefaultConfiguration(), with its identifiers as numbers. *)
DefaultIdentifiers ==
    [OPRF |-> RistrettoSha512, AKE |-> RistrettoSha512, KSF |-> 1,
     KDF |-> 7, MAC |-> 7, Hash |-> 7, Context |-> Nil]

(* The configuration NewServer uses: c is << >> (nil) or <<Configuration>>. *)
OrDefault(c) == IF c = << >> THEN DefaultIdentifiers ELSE c[1]

(* NewServer(c): [err, out], out being << >> or <<the Server, with its     *)
(* internal configuration>>.                                               *)
NewServerOf(c) ==
    IF toInternal(OrDefault(c)).err # "ok"
    THEN [err |-> toInternal(OrDefault(c)).err, out |-> << >>]
    ELSE [err |-> "ok",
          out |-> <<[conf |-> toInternal(OrDefault(c)).conf[1], server |-> NewServer]>>]

(* Configuration.GetFakeRecord: [err, out], out being << >> or             *)
(* <<ClientRecord>>.                                                       *)
GetFakeRecord(c, credentialIdentifier, n) ==
    IF toInternal(c).err # "ok" THEN [err |-> toInternal(c).err, out |-> << >>]
    ELSE [err |-> "ok", out |-> <<FakeRecord(toInternal(c).conf[1], credentialIdentifier, n)>>]

(* I2OSP fails when the number does not fit the length. *)
I2OSPInRange(n, L) == n < Pow256(L)

(* Serialize with the KSF identifier written last. *)
SerializeKSFLast(c) ==
    IF ~I2OSPInRange(Len(c.Context), 2) THEN [err |-> "panic", out |-> Nil]
    ELSE [err |-> "ok",
          out |-> <<Byte(ToByte(c.OPRF)), Byte(ToByte(c.AKE)), Byte(ToByte(c.KDF)),
                    Byte(ToByte(c.MAC)), Byte(ToByte(c.Hash)), Byte(ToByte(c.KSF))>>
                  \o EncodeVector(c.Context)]

(* Configuration.Serialize: [err, out]; it returns no error, and fails     *)
(* (panics) when the length of the context does not fit two bytes.         *)
Serialize(c) ==
    IF ~I2OSPInRange(Len(c.Context), 2) THEN [err |-> "panic", out |-> Nil]
    ELSE [err |-> "ok",
          out |-> <<Byte(ToByte(c.OPRF)), Byte(ToByte(c.AKE)), Byte(ToByte(c.KSF)),
                    Byte(ToByte(c.KDF)), Byte(ToByte(c.MAC)), Byte(ToByte(c.Hash))>>
                  \o EncodeVector(c.Context)]

(* The number a byte atom holds. *)
ByteValue(a) == IF a[1] = "b" THEN a[2] ELSE 0

OS2IP(in) == IF Len(in) = 2 THEN ByteValue(in[1]) * 256 + ByteValue(in[2]) ELSE ByteValue(in[1])

(* encoding.DecodeVector: [err, data, offset] *)
DecodeVector(in) ==
    IF Len(in) < 2 THEN [err |-> "errHeaderLength", data |-> Nil, offset |-> 0]
    ELSE IF Len(in) < 2 + OS2IP(SubSeq(in, 1, 2))
    THEN [err |-> "errTotalLength", data |-> Nil, offset |-> 0]
    ELSE [err |-> "ok", data |-> SubSeq(in, 3, 2 + OS2IP(SubSeq(in, 1, 2))),
          offset |-> 2 + OS2IP(SubSeq(in, 1, 2))]

(* The Configuration DeserializeConfiguration builds once the context ctx  *)
(* is decoded.                                                             *)
DecodedConfiguration(encoded, ctx) ==
    [OPRF |-> ByteValue(encoded[1]), AKE |-> ByteValue(encoded[2]),
     KSF |-> ByteValue(encoded[3]), KDF |-> ByteValue(encoded[4]),
     MAC |-> ByteValue(encoded[5]), Hash |-> ByteValue(encoded[6]), Context |-> ctx]

(* DeserializeConfiguration: [err, out], out being << >> or                *)
(* <<Configuration>>.  The offset DecodeVector returns is not looked at.   *)
DeserializeConfiguration(encoded) ==
    IF Len(encoded) < confIDsLength + 2
    THEN [err |-> "ErrConfigurationInvalidLength", out |-> << >>]
    ELSE IF DecodeVector(SubSeq(encoded, confIDsLength + 1, Len(encoded))).err # "ok"
    THEN [err |-> "decoding the configuration context: "
                   \o DecodeVector(SubSeq(encoded, confIDsLength + 1, Len(encoded))).err,
          out |-> << >>]
    ELSE IF verify(DecodedConfiguration(encoded,
                 DecodeVector(SubSeq(encoded, confIDsLength + 1, Len(encoded))).data)) # "ok"
    THEN [err |-> verify(DecodedConfiguration(encoded,
                 DecodeVector(SubSeq(encoded, confIDsLength + 1, Len(encoded))).data)),
          out |-> << >>]
    ELSE [err |-> "ok",
          out |-> <<DecodedConfiguration(encoded,
                 DecodeVector(SubSeq(encoded, confIDsLength + 1, Len(encoded))).data)>>]

(***************************************************************************)
(* The system: one configuration, Server objects, the record store, one    *)
(* client login at a time, and the messages in flight.                     *)
(*   conf   the Configuration of the application                           *)
(*   srv    the Server objects                                             *)
(*   store  the application's record store: << >> or <<ClientRecord>>      *)
(*   cli    the client's login                                             *)
(*   net    the KE1 and KE2 in flight                                      *)
(*   saved  the last value SerializeState returned to the application      *)
(*   ret    the last call: operation, receiver, error, argument (the key   *)
(*          material, the record's envelope, the client MAC, the state     *)
(*          buffer, for Flush the state it cleared) and result             *)
(*   gh     history: the registration, the KE3s clients sent, and per      *)
(*          server the number of GenerateKE2 calls, whether SetKeyMaterial *)
(*          ever succeeded, and the session GenerateKE2 opened (closed by  *)
(*          Flush)                                                         *)
(*   oracle the strings the hash has been summed on                        *)
(***************************************************************************)
VARIABLES conf, srv, store, cli, net, saved, ret, gh, oracle

vars == <<conf, srv, store, cli, net, saved, ret, gh, oracle>>

(* The number of GenerateKE2 calls a Server object receives. *)
MaxSessions == 2

DefaultConfiguration ==
    [OPRF |-> RistrettoSha512, AKE |-> RistrettoSha512, KSF |-> Argon2id,
     KDF |-> SHA512, MAC |-> SHA512, Hash |-> SHA512, Context |-> Nil]

P256Configuration ==
    [OPRF |-> P256Sha256, AKE |-> P256Sha256, KSF |-> KSFIdentity,
     KDF |-> SHA512, MAC |-> SHA256, Hash |-> SHA256, Context |-> Str("app")]

Configurations == {DefaultConfiguration, P256Configuration}

(***************************************************************************)
(* The inputs the callers draw from.                                       *)
(***************************************************************************)
CorrectHorse == Str("CorrectHorse")
WrongHorse == Str("WrongHorse")
CredentialIdentifier == Str("alice@example")

ServerSecretKey == Sk(<<"server", 0>>)
ServerPublicKey(c) == Multiply(Base(c.AKE), ServerSecretKey)
GoodSK(c) == SerializeScalar(ServerSecretKey, c.AKE)
GoodPK(c) == SerializePoint(ServerPublicKey(c))
OPRFSeed(c) == RandomBytes(<<"oprfseed", 0>>, HashSize(c.Hash))

ZeroSK(c) == SerializeScalar(ZeroScalar, c.AKE)
LongSK(c) == GoodSK(c) \o <<Byte(0)>>
LongPK(c) == GoodPK(c) \o <<Byte(0)>>
JunkPK(c) == RandomBytes(<<"junkpk", 0>>, ElementLength(c.AKE))
LongSeed(c) == OPRFSeed(c) \o <<Byte(0)>>
ShortSeed(c) == SubSeq(OPRFSeed(c), 1, HashSize(c.Hash) - 1)

(* Arguments of SetKeyMaterial that it accepts. *)
GoodKeyMaterialInputs(c) ==
    {<<ids, GoodSK(c), GoodPK(c), OPRFSeed(c)>> : ids \in {Nil, Str("server")}}

OneKeyMaterialInput(c) == {<<Nil, GoodSK(c), GoodPK(c), OPRFSeed(c)>>}

(* Arguments of SetKeyMaterial: the good ones, one defect, two defects. *)
KeyMaterialInputs(c) ==
    GoodKeyMaterialInputs(c) \cup
    {<<Nil, ZeroSK(c), GoodPK(c), OPRFSeed(c)>>,
     <<Nil, LongSK(c), GoodPK(c), OPRFSeed(c)>>,
     <<Nil, GoodSK(c), GoodPK(c), LongSeed(c)>>,
     <<Nil, GoodSK(c), GoodPK(c), ShortSeed(c)>>,
     <<Nil, GoodSK(c), LongPK(c), OPRFSeed(c)>>,
     <<Nil, GoodSK(c), JunkPK(c), OPRFSeed(c)>>,
     <<Nil, ZeroSK(c), LongPK(c), LongSeed(c)>>,
     <<Nil, GoodSK(c), LongPK(c), ShortSeed(c)>>}

(* A registration: password, client identity, server identity. *)
OneRegistration == {<<CorrectHorse, Nil, Nil>>}

Registrations == {<<CorrectHorse, Nil, Nil>>, <<CorrectHorse, Str("alice"), Str("server")>>}

Call(op, s, err, in, out) == [op |-> op, s |-> s, err |-> err, in |-> in, out |-> out]

NoClient ==
    [n |-> 0, phase |-> "idle", pwd |-> Nil, idc |-> Nil, ids |-> Nil,
     ctx |-> Nil, ke1 |-> << >>, ke2 |-> << >>, err |-> "", ke3 |-> << >>,
     sessionKey |-> Nil]

NoSession == [nke2 |-> 0, keyed |-> FALSE, sess |-> << >>]

(* What one side bound a handshake to. *)
Bound(c, identities, ke1, ke2) ==
    [ctx |-> c.Context, idc |-> identities.ClientIdentity, ids |-> identities.ServerIdentity,
     ke1 |-> ke1, resp |-> ke2.CredentialResponse, nonce |-> ke2.ServerNonce,
     epk |-> ke2.ServerPublicKeyshare]

Init ==
    /\ conf \in Configurations
    /\ srv = [s \in {"s1"} |-> NewServer]
    /\ store = << >>
    /\ cli = NoClient
    /\ net = [ke1 |-> << >>, ke2 |-> << >>]
    /\ saved = Nil
    /\ ret = Call("NewServer", "s1", "ok", << >>, << >>)
    /\ gh = [reg |-> << >>, sent3 |-> {}, ends |-> {}, srv |-> [s \in {"s1"} |-> NoSession]]
    /\ oracle = << >>

SetKeyMaterialCall(s, inputs) ==
    \E in \in inputs :
      LET r == SetKeyMaterial(srv[s], conf, in[1], in[2], in[3], in[4])
      IN  /\ srv' = [srv EXCEPT ![s] = r.srv]
          /\ ret' = Call("SetKeyMaterial", s, r.err, in, << >>)
          /\ gh' = [gh EXCEPT !.srv[s].keyed = @ \/ r.err = "ok"]
          /\ UNCHANGED <<conf, store, cli, net, saved, oracle>>

RegistrationBlind == Sk(<<"regblind", 0>>)

(* Registration of the client against s.RegistrationResponse; the record  *)
(* is stored with its credential identifier and client identity.          *)
RegistrationCall(s, registrations) ==
    /\ store = << >>
    /\ \E reg \in registrations :
         \E resp \in {RegistrationResponse(conf,
                          [BlindedMessage |-> OPRFBlind(conf.OPRF, reg[1], RegistrationBlind)],
                          ServerPublicKey(conf), CredentialIdentifier, OPRFSeed(conf))} :
         \E rec \in {RegistrationFinalize(oracle, conf, reg[1], RegistrationBlind,
                          RandomBytes(<<"envelope", 0>>, NonceLength), reg[2], reg[3],
                          [EvaluatedMessage |-> resp.EvaluatedMessage,
                           Pks |-> SerializePoint(resp.Pks)])} :
             /\ store' = <<[PublicKey |-> rec.PublicKey,
                            MaskingKey |-> rec.MaskingKey,
                            Envelope |-> rec.Envelope,
                            CredentialIdentifier |-> CredentialIdentifier,
                            ClientIdentity |-> reg[2]]>>
             /\ gh' = [gh EXCEPT !.reg = <<[pwd |-> reg[1], idc |-> reg[2], ids |-> reg[3]]>>]
             /\ ret' = Call("RegistrationResponse", s, "ok", << >>, << >>)
             /\ oracle' = rec.oracle
             /\ UNCHANGED <<conf, srv, cli, net, saved>>

ShortEnvelope(record) == [record EXCEPT !.Envelope = SubSeq(@, 1, Len(@) - 1)]

GhostIdentifier == Str("ghost")

(* The records GetFakeRecord returns, for a credential identifier that is  *)
(* not registered and for the registered one.                              *)
FakeRecords(c) == {FakeRecord(c, id, 0) : id \in {GhostIdentifier, CredentialIdentifier}}

(* GenerateKE2 of Server objects that share one transcript hasher: each   *)
(* call continues from what the hasher of the first server holds.          *)
GenerateKE2CallSharedHasher(s, ke1s, records, optionss, deliver) ==
    /\ store # << >>
    /\ gh.srv[s].nke2 < MaxSessions
    /\ \E ke1 \in ke1s, record \in records, options \in optionss :
         \E r \in {GenerateKE2(oracle, [srv[s] EXCEPT !.hash = srv["s1"].hash],
                                  conf, ke1, record, options, gh.srv[s].nke2 + 1)} :
             /\ srv' = [srv EXCEPT ![s] = r.srv]
             /\ net' = IF deliver THEN [ke1 |-> << >>, ke2 |-> r.ke2] ELSE net
             /\ ret' = Call("GenerateKE2", s, r.err, record.Envelope, r.ke2)
             /\ oracle' = r.oracle
             /\ gh' = IF r.err = "ok"
                      THEN [gh EXCEPT !.srv[s].nke2 = @ + 1,
                                      !.srv[s].sess =
                                         <<[ke2 |-> r.ke2[1],
                                            clientMac |-> r.srv.Ake.clientMac,
                                            login |-> IF deliver THEN cli.n ELSE 0,
                                            record |-> record,
                                            options |-> options,
                                            bound |-> Bound(conf, r.identities[1],
                                                            ke1, r.ke2[1])]>>]
                      ELSE [gh EXCEPT !.srv[s].nke2 = @ + 1]
             /\ UNCHANGED <<conf, store, cli, saved>>

(* GenerateKE2 on a KE1, a record and options of the given sets; deliver    *)
(* says whether the KE1 came over the network and the KE2 is sent back.    *)
(* The session remembers the KE2, the expected MAC, the login it answers,  *)
(* the record and options it was given and what the handshake was bound    *)
(* to.                                                                     *)
GenerateKE2Call(s, ke1s, records, optionss, deliver) ==
    /\ store # << >>
    /\ gh.srv[s].nke2 < MaxSessions
    /\ \E ke1 \in ke1s, record \in records, options \in optionss :
         \E r \in {GenerateKE2(oracle, srv[s], conf, ke1, record, options, gh.srv[s].nke2 + 1)} :
             /\ srv' = [srv EXCEPT ![s] = r.srv]
             /\ net' = IF deliver THEN [ke1 |-> << >>, ke2 |-> r.ke2] ELSE net
             /\ ret' = Call("GenerateKE2", s, r.err, record.Envelope, r.ke2)
             /\ oracle' = r.oracle
             /\ gh' = IF r.err = "ok"
                      THEN [gh EXCEPT !.srv[s].nke2 = @ + 1,
                                      !.srv[s].sess =
                                         <<[ke2 |-> r.ke2[1],
                                            clientMac |-> r.srv.Ake.clientMac,
                                            login |-> IF deliver THEN cli.n ELSE 0,
                                            record |-> record,
                                            options |-> options,
                                            bound |-> Bound(conf, r.identities[1],
                                                            ke1, r.ke2[1])]>>]
                      ELSE [gh EXCEPT !.srv[s].nke2 = @ + 1]
             /\ UNCHANGED <<conf, store, cli, saved>>

JunkMAC(c) == RandomBytes(<<"junkmac", 0>>, HashSize(c.MAC))

(* LoginFinish that closes the session it accepts a KE3 in. *)
LoginFinishCallOneShot(s, ke3s) ==
    \E ke3 \in ke3s :
      /\ ret' = Call("LoginFinish", s, LoginFinish(srv[s], conf, ke3), ke3.ClientMac, << >>)
      /\ srv' = IF LoginFinish(srv[s], conf, ke3) = "ok"
                THEN [srv EXCEPT ![s] = Flush(srv[s])]
                ELSE srv
      /\ UNCHANGED <<conf, store, cli, net, saved, gh, oracle>>

LoginFinishCall(s, ke3s) ==
    \E ke3 \in ke3s :
      /\ ret' = Call("LoginFinish", s, LoginFinish(srv[s], conf, ke3), ke3.ClientMac, << >>)
      /\ UNCHANGED <<conf, srv, store, cli, net, saved, gh, oracle>>

SessionKeyCall(s) ==
    /\ ret' = Call("SessionKey", s, "ok", << >>, SessionKey(srv[s]))
    /\ UNCHANGED <<conf, srv, store, cli, net, saved, gh, oracle>>

ExpectedMACCall(s) ==
    /\ ret' = Call("ExpectedMAC", s, "ok", << >>, ExpectedMAC(srv[s]))
    /\ UNCHANGED <<conf, srv, store, cli, net, saved, gh, oracle>>

SerializeStateCall(s) ==
    /\ ret' = Call("SerializeState", s, "ok", << >>, SerializeState(srv[s]))
    /\ saved' = SerializeState(srv[s])
    /\ UNCHANGED <<conf, srv, store, cli, net, gh, oracle>>

JunkState(c) == RandomBytes(<<"junkstate", 0>>, HashSize(c.MAC) + HashSize(c.KDF))

(* The buffers an application may hand to SetAKEState: the saved state,    *)
(* the saved state one byte longer or shorter, and a buffer of the right   *)
(* length it never got from SerializeState.                                *)
StateInputs(c) ==
    {saved, saved \o <<Byte(0)>>, SubSeq(saved, 1, Len(saved) - 1), JunkState(c)}

SetAKEStateCall(s) ==
    \E state \in StateInputs(conf) :
      LET r == SetAKEState(srv[s], conf, state)
      IN  /\ srv' = [srv EXCEPT ![s] = r.srv]
          /\ ret' = Call("SetAKEState", s, r.err, state, << >>)
          /\ UNCHANGED <<conf, store, cli, net, saved, gh, oracle>>

FlushCall(s) ==
    /\ srv' = [srv EXCEPT ![s] = Flush(srv[s])]
    /\ ret' = Call("Flush", s, "ok", SerializeState(srv[s]), << >>)
    /\ gh' = [gh EXCEPT !.srv[s].sess = << >>]
    /\ UNCHANGED <<conf, store, cli, net, saved, oracle>>

(***************************************************************************)
(* The client: a fresh Client object per login, with fresh randomness.     *)
(***************************************************************************)
ClientBlind(n) == Sk(<<"blind", n>>)
ClientESK(n) == Sk(<<"esk", n>>)
ClientNonce(n) == RandomBytes(<<"cnonce", n>>, NonceLength)

ClientConf == [conf EXCEPT !.Context = cli.ctx]

(* What a login may be run with: <<password, client identity, server       *)
(* identity, context>>, as registered or with one of them replaced.        *)
ClientLogins ==
    LET reg == gh.reg[1]
    IN  {<<reg.pwd, reg.idc, reg.ids, conf.Context>>,
         <<WrongHorse, reg.idc, reg.ids, conf.Context>>,
         <<reg.pwd, Str("mallory"), reg.ids, conf.Context>>,
         <<reg.pwd, reg.idc, reg.ids, Str("other-app")>>}

ClientStart ==
    /\ cli.phase # "awaitKE2" \/ (net.ke1 = << >> /\ net.ke2 = << >>)
    /\ gh.reg # << >>
    /\ \E s \in DOMAIN srv : gh.srv[s].nke2 < MaxSessions
    /\ \E login \in ClientLogins :
         LET n == cli.n + 1
             ke1 == GenerateKE1(conf, login[1], ClientBlind(n), ClientESK(n), ClientNonce(n))
         IN  /\ cli' = [NoClient EXCEPT !.n = n, !.phase = "awaitKE2", !.pwd = login[1],
                                        !.idc = login[2], !.ids = login[3],
                                        !.ctx = login[4], !.ke1 = <<ke1>>]
             /\ net' = [ke1 |-> <<ke1>>, ke2 |-> << >>]
             /\ ret' = Call("GenerateKE1", "client", "ok", << >>, << >>)
             /\ UNCHANGED <<conf, srv, store, saved, gh, oracle>>

(* How a well-formed login ends that cannot succeed: the client used the   *)
(* registered identities and context, its KE1 and the KE2 of server s      *)
(* arrived as sent, and s answered from a fake record (fake) or from the   *)
(* stored record while the client used another password than the           *)
(* registered one.                                                         *)
LoginEnds(err) ==
    {[fake |-> gh.srv[s].sess[1].record \in FakeRecords(conf), err |-> err] :
       s \in {t \in DOMAIN srv :
                /\ gh.srv[t].sess # << >>
                /\ gh.srv[t].sess[1].login = cli.n
                /\ gh.srv[t].sess[1].bound.ke1 = cli.ke1[1]
                /\ gh.srv[t].sess[1].ke2 = net.ke2[1]
                /\ cli.idc = gh.reg[1].idc
                /\ cli.ids = gh.reg[1].ids
                /\ cli.ctx = conf.Context
                /\ \/ gh.srv[t].sess[1].record \in FakeRecords(conf)
                   \/ cli.pwd # gh.reg[1].pwd}}

ClientFinish ==
    /\ cli.phase = "awaitKE2"
    /\ net.ke2 # << >>
    /\ \E r \in {GenerateKE3(oracle, ClientConf, cli.pwd, ClientBlind(cli.n),
                              ClientESK(cli.n), cli.ke1[1], cli.idc, cli.ids, net.ke2[1])} :
           /\ cli' = [cli EXCEPT !.phase = IF r.err = "ok" THEN "done" ELSE "failed",
                                 !.err = r.err, !.ke2 = net.ke2, !.ke3 = r.ke3,
                                 !.sessionKey = r.sessionKey]
           /\ gh' = IF r.err = "ok"
                    THEN [gh EXCEPT !.sent3 = @ \cup
                            {[mac |-> r.ke3[1].ClientMac,
                              bound |-> Bound(ClientConf, r.identities[1],
                                              cli.ke1[1], net.ke2[1])]},
                                    !.ends = @ \cup LoginEnds(r.err)]
                    ELSE [gh EXCEPT !.ends = @ \cup LoginEnds(r.err)]
           /\ net' = [net EXCEPT !.ke2 = << >>]
           /\ ret' = Call("GenerateKE3", "client", r.err, << >>, << >>)
           /\ oracle' = r.oracle
           /\ UNCHANGED <<conf, srv, store, saved>>

(***************************************************************************)
(* The network may alter one message of a login that is run with the       *)
(* registered password, identities and context.                            *)
(***************************************************************************)
RegisteredLogin ==
    /\ cli.pwd = gh.reg[1].pwd
    /\ cli.idc = gh.reg[1].idc
    /\ cli.ids = gh.reg[1].ids
    /\ cli.ctx = conf.Context

EvilNonce == RandomBytes(<<"evilnonce", 0>>, NonceLength)

TamperKE1 ==
    /\ net.ke1 # << >>
    /\ RegisteredLogin
    /\ net.ke1[1].ClientNonce # EvilNonce
    /\ net' = [net EXCEPT !.ke1[1].ClientNonce = EvilNonce]
    /\ ret' = Call("TamperKE1", "net", "ok", << >>, << >>)
    /\ UNCHANGED <<conf, srv, store, cli, saved, gh, oracle>>

(* The KE2 with one field replaced. *)
TamperedKE2(ke2) ==
    {[ke2 EXCEPT !.ServerNonce = EvilNonce],
     [ke2 EXCEPT !.ServerPublicKeyshare = Multiply(Base(conf.AKE), Sk(<<"evilesk", 0>>))],
     [ke2 EXCEPT !.CredentialResponse.MaskingNonce = EvilNonce]}

TamperKE2 ==
    /\ net.ke2 # << >>
    /\ RegisteredLogin
    /\ \E s \in DOMAIN srv :
         /\ gh.srv[s].sess # << >>
         /\ gh.srv[s].sess[1].bound.ke1 = cli.ke1[1]
         /\ gh.srv[s].sess[1].ke2 = net.ke2[1]
    /\ \E ke2 \in TamperedKE2(net.ke2[1]) : net' = [net EXCEPT !.ke2 = <<ke2>>]
    /\ ret' = Call("TamperKE2", "net", "ok", << >>, << >>)
    /\ UNCHANGED <<conf, srv, store, cli, saved, gh, oracle>>

(***************************************************************************)
(* Spec: the Server API, called in any order by the application.           *)
(***************************************************************************)
KE1Inputs(c) == {GenerateKE1(c, CorrectHorse, ClientBlind(1), ClientESK(1), ClientNonce(1))}

RecordInputs ==
    {store[1], ShortEnvelope(store[1]), FakeRecord(conf, GhostIdentifier, 0)}

OptionInputs == {<< >>}

(* The KE3 an application may hand to LoginFinish: empty, junk, the MAC    *)
(* of the session the server opened and the MAC of the saved state.        *)
KE3Inputs(s) ==
    {[ClientMac |-> Nil], [ClientMac |-> JunkMAC(conf)],
     [ClientMac |-> IF Len(saved) >= HashSize(conf.MAC)
                    THEN SubSeq(saved, 1, HashSize(conf.MAC)) ELSE Nil]}
      \cup {[ClientMac |-> gh.srv[s].sess[i].clientMac] : i \in 1..Len(gh.srv[s].sess)}

Next ==
    \/ \E s \in DOMAIN srv : SetKeyMaterialCall(s, KeyMaterialInputs(conf))
    \/ \E s \in DOMAIN srv : RegistrationCall(s, OneRegistration)
    \/ \E s \in DOMAIN srv : GenerateKE2Call(s, KE1Inputs(conf), RecordInputs, OptionInputs, FALSE)
    \/ \E s \in DOMAIN srv : LoginFinishCall(s, KE3Inputs(s))
    \/ \E s \in DOMAIN srv : SessionKeyCall(s)
    \/ \E s \in DOMAIN srv : ExpectedMACCall(s)
    \/ \E s \in DOMAIN srv : SerializeStateCall(s)
    \/ \E s \in DOMAIN srv : SetAKEStateCall(s)
    \/ \E s \in DOMAIN srv : FlushCall(s)

Spec == Init /\ [][Next]_vars

(***************************************************************************)
(* SpecLogin: registration and logins over the network.  The application   *)
(* installs the key material once, answers each KE1 against the stored     *)
(* record, and hands LoginFinish what it received as KE3: a KE3 some       *)
(* client sent, an empty one or junk.                                      *)
(***************************************************************************)
KE1InFlight == {net.ke1[i] : i \in 1..Len(net.ke1)}

KE3Sent == {[ClientMac |-> m.mac] : m \in gh.sent3}
             \cup {[ClientMac |-> Nil], [ClientMac |-> JunkMAC(conf)]}

NextLogin ==
    \/ \E s \in DOMAIN srv :
         srv[s].keyMaterial = << >> /\ SetKeyMaterialCall(s, GoodKeyMaterialInputs(conf))
    \/ \E s \in DOMAIN srv : RegistrationCall(s, Registrations)
    \/ ClientStart
    \/ TamperKE1
    \/ \E s \in DOMAIN srv : GenerateKE2Call(s, KE1InFlight, {store[1]} \cup FakeRecords(conf), {<< >>}, TRUE)
    \/ TamperKE2
    \/ ClientFinish
    \/ \E s \in DOMAIN srv : LoginFinishCall(s, KE3Sent)
    \/ \E s \in DOMAIN srv : gh.srv[s].sess # << >> /\ FlushCall(s)

SpecLogin == Init /\ [][NextLogin]_vars

(***************************************************************************)
(* SpecTwo: two Server objects of one application.  Both are given the     *)
(* same key material and answer the same KE1 against the same stored       *)
(* record, with the key share seed and the nonces fixed by the caller; the *)
(* AKE state of either may be saved and loaded into either.                *)
(***************************************************************************)
FixedOptions ==
    [KeyShareSeed |-> RandomBytes(<<"fixedseed", 0>>, SeedLength),
     AKENonce |-> RandomBytes(<<"fixednonce", 0>>, NonceLength),
     MaskingNonce |-> RandomBytes(<<"fixedmask", 0>>, NonceLength),
     AKENonceLength |-> 0]

Servers == {"s1", "s2"}

InitTwo ==
    /\ conf \in Configurations
    /\ srv = [s \in Servers |-> NewServer]
    /\ store = << >>
    /\ cli = NoClient
    /\ net = [ke1 |-> << >>, ke2 |-> << >>]
    /\ saved = Nil
    /\ ret = Call("NewServer", "s1", "ok", << >>, << >>)
    /\ gh = [reg |-> << >>, sent3 |-> {}, ends |-> {}, srv |-> [s \in Servers |-> NoSession]]
    /\ oracle = << >>

NextTwo ==
    \/ \E s \in DOMAIN srv :
         srv[s].keyMaterial = << >> /\ SetKeyMaterialCall(s, OneKeyMaterialInput(conf))
    \/ \E s \in DOMAIN srv : RegistrationCall(s, OneRegistration)
    \/ \E s \in DOMAIN srv :
         /\ srv[s].keyMaterial # << >>
         /\ GenerateKE2Call(s, KE1Inputs(conf), {store[1]}, {<<FixedOptions>>}, FALSE)
    \/ \E s \in DOMAIN srv : LoginFinishCall(s, KE3Inputs(s))
    \/ \E s \in DOMAIN srv : SerializeStateCall(s)
    \/ \E s \in DOMAIN srv : SetAKEStateCall(s)
    \/ \E s \in DOMAIN srv : FlushCall(s)

SpecTwo == InitTwo /\ [][NextTwo]_vars

(***************************************************************************)
(* SpecConfiguration: an application holds a Configuration conf, builds    *)
(* objects from it, serializes it into the buffer saved, and deserializes  *)
(* the buffer as it is, cut short or with bytes appended.                  *)
(***************************************************************************)
(* A context one byte longer than the two length bytes of EncodeVector can *)
(* say.                                                                    *)
OversizedContext == [j \in 1..Pow256(2) |-> Byte(0)]

(* Extra bytes an over-long input carries. *)
MaxExtra == 2

ApplicationConfigurations ==
    [OPRF : {RistrettoSha512, P256Sha256, 2},
     AKE : {RistrettoSha512, P256Sha256, 0},
     KSF : {0, 1, 4},
     KDF : {5, 7, 261},
     MAC : {7, 4},
     Hash : {5, 30},
     Context : {Nil, <<Byte(1), Byte(2)>>}]

InitConfiguration ==
    /\ conf \in ApplicationConfigurations
    /\ srv = [s \in {"s1"} |-> NewServer]
    /\ store = << >>
    /\ cli = NoClient
    /\ net = [ke1 |-> << >>, ke2 |-> << >>]
    /\ saved = Nil
    /\ ret = Call("Configuration", "app", "ok", << >>, << >>)
    /\ gh = [reg |-> << >>, sent3 |-> {}, ends |-> {}, srv |-> [s \in {"s1"} |-> NoSession]]
    /\ oracle = << >>

NewServerCall ==
    /\ \E c \in {<<conf>>, << >>} :
         ret' = Call("NewServer", "app", NewServerOf(c).err, c, NewServerOf(c).out)
    /\ UNCHANGED <<conf, srv, store, cli, net, saved, gh, oracle>>

DeserializerCall ==
    /\ ret' = Call("Deserializer", "app", Deserializer(conf).err, <<conf>>,
                   Deserializer(conf).out)
    /\ UNCHANGED <<conf, srv, store, cli, net, saved, gh, oracle>>

GetFakeRecordCall ==
    /\ ret' = Call("GetFakeRecord", "app", GetFakeRecord(conf, GhostIdentifier, 0).err,
                   <<conf>>, GetFakeRecord(conf, GhostIdentifier, 0).out)
    /\ UNCHANGED <<conf, srv, store, cli, net, saved, gh, oracle>>

(* Serialize on conf, or on conf with a context too long for EncodeVector; *)
(* the call is recorded with the length of the context.                    *)
SerializeCall ==
    /\ \E c \in {conf, [conf EXCEPT !.Context = OversizedContext]} :
         /\ ret' = Call("Serialize", "app", Serialize(c).err, Len(c.Context),
                        Serialize(c).out)
         /\ saved' = IF Serialize(c).err = "ok" THEN Serialize(c).out ELSE saved
    /\ UNCHANGED <<conf, srv, store, cli, net, gh, oracle>>

(* The buffer as saved, each proper prefix of it, and the buffer with      *)
(* bytes appended.                                                         *)
EncodedInputs ==
    {SubSeq(saved, 1, n) : n \in 0..Len(saved)}
      \cup {saved \o [j \in 1..k |-> Byte(0)] : k \in 1..MaxExtra}

DeserializeConfigurationCall ==
    /\ saved # Nil
    /\ \E encoded \in EncodedInputs :
         ret' = Call("DeserializeConfiguration", "app", DeserializeConfiguration(encoded).err,
                     encoded, DeserializeConfiguration(encoded).out)
    /\ UNCHANGED <<conf, srv, store, cli, net, saved, gh, oracle>>

NextConfiguration ==
    \/ NewServerCall
    \/ DeserializerCall
    \/ GetFakeRecordCall
    \/ SerializeCall
    \/ DeserializeConfigurationCall

SpecConfiguration == InitConfiguration /\ [][NextConfiguration]_vars

(***************************************************************************)
(* SpecOPRF: the OPRF alone.  A client blinds an input, the server         *)
(* evaluates the blinded element under the key of a credential identifier, *)
(* and the client finalizes.                                               *)
(***************************************************************************)
(* The number of distinct strings the hash is summed on. *)
MaxQueries == 3

OPRFInputs == {CorrectHorse, WrongHorse}

(* Non-zero blinds. *)
OPRFBlinds == {ClientBlind(1), ClientBlind(2), RegistrationBlind}

OPRFIdentifiers == {CredentialIdentifier, GhostIdentifier}

OPRFCall ==
    /\ \E x \in OPRFInputs, b \in OPRFBlinds, id \in OPRFIdentifiers :
         \E evaluated \in {oprfResponse(conf, OPRFBlind(conf.OPRF, x, b), OPRFSeed(conf), id)} :
           /\ Len(Query(oracle, OPRFFinalizeInput(x, b, evaluated))) <= MaxQueries
           /\ oracle' = Query(oracle, OPRFFinalizeInput(x, b, evaluated))
           /\ ret' = Call("OPRF", "client", "ok", <<x, b, id>>,
                          OPRFFinalize(oracle', conf.OPRF, x, b, evaluated))
    /\ UNCHANGED <<conf, srv, store, cli, net, saved, gh>>

NextOPRF == OPRFCall

SpecOPRF == Init /\ [][NextOPRF]_vars

(***************************************************************************)
(* SpecRecord: the records an application may hand to GenerateKE2.  The    *)
(* application installs key material (some of it refused), registers one   *)
(* client, and calls GenerateKE2 with the stored record, with the stored   *)
(* record altered in the length of its envelope or of its masking key, or  *)
(* with a fake record.                                                     *)
(***************************************************************************)
LongEnvelope(record) == [record EXCEPT !.Envelope = @ \o <<Byte(0)>>]

ShortMaskingKey(record) == [record EXCEPT !.MaskingKey = SubSeq(@, 1, Len(@) - 1)]

RecordShapes ==
    {store[1], ShortEnvelope(store[1]), LongEnvelope(store[1]), ShortMaskingKey(store[1]),
     FakeRecord(conf, GhostIdentifier, 0)}

(* Another seed of the right length. *)
OtherSeed(c) == RandomBytes(<<"oprfseed", 1>>, HashSize(c.Hash))

(* Key material SetKeyMaterial accepts, with either seed, and key material *)
(* it refuses for its public key.                                          *)
RecordKeyMaterialInputs(c) ==
    {<<Nil, GoodSK(c), GoodPK(c), OPRFSeed(c)>>,
     <<Nil, GoodSK(c), GoodPK(c), OtherSeed(c)>>,
     <<Nil, GoodSK(c), LongPK(c), OPRFSeed(c)>>,
     <<Nil, GoodSK(c), JunkPK(c), OPRFSeed(c)>>}

NextRecord ==
    \/ \E s \in DOMAIN srv : SetKeyMaterialCall(s, RecordKeyMaterialInputs(conf))
    \/ \E s \in DOMAIN srv : RegistrationCall(s, OneRegistration)
    \/ \E s \in DOMAIN srv :
         GenerateKE2Call(s, KE1Inputs(conf), RecordShapes, {<< >>, <<FixedOptions>>}, FALSE)
    \/ \E s \in DOMAIN srv : FlushCall(s)

SpecRecord == Init /\ [][NextRecord]_vars

(***************************************************************************)
(* Properties.                                                             *)
(***************************************************************************)
StateSize(c) == HashSize(c.MAC) + HashSize(c.KDF)

(* The login the client has finished is the registered one, run against    *)
(* server s holding the key material the registration saw, and both the    *)
(* KE1 and the KE2 arrived as they were sent.                              *)
HonestLogin(s) ==
    /\ cli.phase \in {"done", "failed"}
    /\ RegisteredLogin
    /\ srv[s].keyMaterial # << >>
    /\ srv[s].keyMaterial[1].serverIdentity = gh.reg[1].ids
    /\ gh.srv[s].sess # << >>
    /\ gh.srv[s].sess[1].login = cli.n
    /\ gh.srv[s].sess[1].record = store[1]
    /\ gh.srv[s].sess[1].bound.ke1 = cli.ke1[1]
    /\ gh.srv[s].sess[1].ke2 = cli.ke2[1]

(* C1: registration/login round-trip.  A client that registered with P and *)
(* logs in with P against the stored record, with the registered           *)
(* identities and context and with messages delivered unaltered,           *)
(* completes without error, the server's LoginFinish accepts its KE3, and   *)
(* the client's session key equals the server's SessionKey().              *)
C1_RoundTrip ==
    \A s \in DOMAIN srv :
      HonestLogin(s) =>
        /\ cli.err = "ok"
        /\ LoginFinish(srv[s], conf, cli.ke3[1]) = "ok"
        /\ cli.sessionKey = SessionKey(srv[s])

(* C1, where it holds: the round trip on the first GenerateKE2 of a Server *)
(* has completed on both sides with equal session keys.                    *)
C1_FirstLoginRoundTrip ==
    \E s \in DOMAIN srv :
      /\ HonestLogin(s)
      /\ gh.srv[s].nke2 = 1
      /\ cli.err = "ok"
      /\ ret.op = "LoginFinish" /\ ret.err = "ok" /\ ret.in = cli.ke3[1].ClientMac
      /\ cli.sessionKey = SessionKey(srv[s])
      /\ cli.sessionKey # Nil

(* C2: password dependence.  A login with a password other than the        *)
(* registered one ends on the client with EnvelopeRecovery and no KE3, and *)
(* in the session the server opened for it LoginFinish returns             *)
(* ErrAkeInvalidClientMac for every KE3 it is handed: an empty one, junk,  *)
(* and the KE3 of any earlier successful login.                            *)
C2_PasswordDependence ==
    /\ (cli.phase \in {"done", "failed"} /\ cli.pwd # gh.reg[1].pwd)
          => (cli.err = "EnvelopeRecovery" /\ cli.ke3 = << >>)
    /\ \A s \in DOMAIN srv :
         (/\ ret.op = "LoginFinish" /\ ret.s = s
          /\ cli.phase # "idle" /\ cli.pwd # gh.reg[1].pwd
          /\ gh.srv[s].sess # << >> /\ gh.srv[s].sess[1].login = cli.n)
            => ret.err = "ErrAkeInvalidClientMac"

C2_WrongPasswordRejected ==
    \E s \in DOMAIN srv :
      /\ cli.phase = "failed" /\ cli.pwd = WrongHorse /\ cli.err = "EnvelopeRecovery"
      /\ gh.srv[s].sess # << >> /\ gh.srv[s].sess[1].login = cli.n
      /\ ret.op = "LoginFinish" /\ ret.s = s /\ ret.in = JunkMAC(conf)
      /\ ret.err = "ErrAkeInvalidClientMac"

C4_LoginFinishVerdict ==
    \A s \in DOMAIN srv :
      (ret.op = "LoginFinish" /\ ret.s = s /\ gh.srv[s].sess # << >>)
        => /\ ret.err = "ok" <=> ret.in = gh.srv[s].sess[1].clientMac
           /\ ret.err # "ok" => ret.err = "ErrAkeInvalidClientMac"

C4_ExpectedMACAccepted ==
    \E s \in DOMAIN srv :
      /\ ret.op = "LoginFinish" /\ ret.s = s /\ gh.srv[s].sess # << >>
      /\ ret.in = gh.srv[s].sess[1].clientMac /\ ret.in # Nil
      /\ ret.err = "ok"

(* C5: transcript binding.  When the client has accepted the server MAC of *)
(* the session opened for its login, or the server has accepted a client   *)
(* MAC, the two sides bound the handshake to the same KE1, credential      *)
(* response, server nonce, server key share, context, client identity and  *)
(* server identity; and the server accepts no client MAC but one a client  *)
(* sent.                                                                   *)
C5_TranscriptBinding ==
    \A s \in DOMAIN srv :
      /\ (cli.phase = "done" /\ gh.srv[s].sess # << >> /\ gh.srv[s].sess[1].login = cli.n)
            => \A m \in gh.sent3 :
                 m.mac = cli.ke3[1].ClientMac => m.bound = gh.srv[s].sess[1].bound
      /\ (/\ ret.op = "LoginFinish" /\ ret.s = s /\ ret.err = "ok"
          /\ gh.srv[s].sess # << >>)
            => /\ \E m \in gh.sent3 : m.mac = ret.in
               /\ \A m \in gh.sent3 : m.mac = ret.in => m.bound = gh.srv[s].sess[1].bound

C5_DoneOnBothSides ==
    \E s \in DOMAIN srv :
      /\ cli.phase = "done"
      /\ gh.srv[s].sess # << >> /\ gh.srv[s].sess[1].login = cli.n
      /\ ret.op = "LoginFinish" /\ ret.s = s /\ ret.err = "ok"
      /\ gh.srv[s].sess[1].bound.idc = Str("alice")

(* C6: GenerateKE2 on a Server on which SetKeyMaterial never succeeded     *)
(* returns ErrNoServerKeyMaterial and no KE2, whatever the KE1 and the     *)
(* record.                                                                 *)
C6_NoServerKeyMaterial ==
    \A s \in DOMAIN srv :
      (ret.op = "GenerateKE2" /\ ret.s = s /\ ~gh.srv[s].keyed)
        => (ret.err = "ErrNoServerKeyMaterial" /\ ret.out = << >>)

C6_RefusedBeforeEnvelopeCheck ==
    \E s \in DOMAIN srv :
      /\ ret.op = "GenerateKE2" /\ ret.s = s /\ ~gh.srv[s].keyed
      /\ Len(ret.in) # EnvelopeSize(conf)
      /\ ret.err = "ErrNoServerKeyMaterial"

(* The arguments <<identity, secret key, public key, seed>> by defect. *)
ZeroSecretKey(c, in) == ScalarDecodes(c.AKE, in[2]) /\ DecodeScalar(in[2]) = ZeroScalar
ValidSecretKey(c, in) == ScalarDecodes(c.AKE, in[2]) /\ DecodeScalar(in[2]) # ZeroScalar
BadSeedLength(c, in) == Len(in[4]) # HashSize(c.Hash)
BadPksLength(c, in) == Len(in[3]) # ElementLength(c.AKE)

(* C7: SetKeyMaterial rejects a secret key that decodes to the zero scalar *)
(* with ErrZeroSKS, a seed whose length is not the hash size with          *)
(* ErrInvalidOPRFSeedLength and a public key whose length is not the       *)
(* element length with ErrInvalidPksLength, each error being that of the   *)
(* first check that fails (secret key, seed, public key); whenever it       *)
(* fails, the key material of the server, or its absence, is unchanged.     *)
C7_SetKeyMaterialRejects ==
    [][\A s \in DOMAIN srv :
         (ret'.op = "SetKeyMaterial" /\ ret'.s = s) =>
           /\ ZeroSecretKey(conf, ret'.in) => ret'.err = "ErrZeroSKS"
           /\ (ValidSecretKey(conf, ret'.in) /\ BadSeedLength(conf, ret'.in))
                 => ret'.err = "ErrInvalidOPRFSeedLength"
           /\ (/\ ValidSecretKey(conf, ret'.in) /\ ~BadSeedLength(conf, ret'.in)
               /\ BadPksLength(conf, ret'.in))
                 => ret'.err = "ErrInvalidPksLength"
           /\ (\/ ZeroSecretKey(conf, ret'.in) \/ BadSeedLength(conf, ret'.in)
               \/ BadPksLength(conf, ret'.in))
                 => ret'.err # "ok"
           /\ ret'.err # "ok" => srv'[s].keyMaterial = srv[s].keyMaterial]_vars

C7_RejectedKeepsInstalled ==
    \E s \in DOMAIN srv :
      /\ ret.op = "SetKeyMaterial" /\ ret.s = s
      /\ BadPksLength(conf, ret.in) /\ ret.err = "ErrInvalidPksLength"
      /\ srv[s].keyMaterial # << >>
      /\ srv[s].keyMaterial[1].serverIdentity = Str("server")

ReadOnlyCalls ==
    {"GenerateKE2", "LoginFinish", "SessionKey", "ExpectedMAC", "SerializeState",
     "SetAKEState", "RegistrationResponse", "Flush"}

(* C8: the key material is read-only after SetKeyMaterial: no GenerateKE2, *)
(* LoginFinish, SessionKey, ExpectedMAC, SerializeState, SetAKEState,      *)
(* RegistrationResponse or Flush call changes the server identity, secret  *)
(* key, public key or seed of any server.                                  *)
C8_KeyMaterialReadOnly ==
    [][ret'.op \in ReadOnlyCalls
         => \A s \in DOMAIN srv : srv'[s].keyMaterial = srv[s].keyMaterial]_vars

C8_KeptThroughSession ==
    \E s \in DOMAIN srv :
      /\ srv[s].keyMaterial # << >>
      /\ gh.srv[s].nke2 > 0
      /\ ret.op = "SetAKEState" /\ ret.s = s /\ ret.err = "ok"

(* C9: after Flush the expected client MAC, the session secret, the        *)
(* ephemeral secret key and the nonce are empty, SessionKey(),             *)
(* ExpectedMAC() and SerializeState() return empty values, and SetAKEState *)
(* accepts every buffer of the right length.                               *)
C9_FlushClears ==
    \A s \in DOMAIN srv :
      (ret.op = "Flush" /\ ret.s = s) =>
        /\ srv[s].Ake.clientMac = Nil
        /\ srv[s].Ake.sessionSecret = Nil
        /\ srv[s].Ake.ephemeralSecretKey = << >>
        /\ srv[s].Ake.nonce = Nil
        /\ SessionKey(srv[s]) = Nil
        /\ ExpectedMAC(srv[s]) = Nil
        /\ SerializeState(srv[s]) = Nil
        /\ \A state \in StateInputs(conf) \cup {ret.in} :
             Len(state) = StateSize(conf) => SetAKEState(srv[s], conf, state).err = "ok"

C9_SessionFlushed ==
    \E s \in DOMAIN srv :
      /\ ret.op = "Flush" /\ ret.s = s
      /\ Len(ret.in) = StateSize(conf)
      /\ srv[s].Ake = akeNewServer

(* C10: SetAKEState with a buffer whose length is not MAC.Size() +         *)
(* KDF.Size() returns ErrInvalidState and leaves the expected client MAC   *)
(* and the session secret unchanged.                                       *)
C10_SetAKEStateWrongLength ==
    [][\A s \in DOMAIN srv :
         (ret'.op = "SetAKEState" /\ ret'.s = s /\ Len(ret'.in) # StateSize(conf))
           => /\ ret'.err = "ErrInvalidState"
              /\ srv'[s].Ake.clientMac = srv[s].Ake.clientMac
              /\ srv'[s].Ake.sessionSecret = srv[s].Ake.sessionSecret]_vars

C10_LongBufferRefused ==
    \E s \in DOMAIN srv :
      /\ ret.op = "SetAKEState" /\ ret.s = s
      /\ Len(ret.in) > StateSize(conf)
      /\ ret.err = "ErrInvalidState"
      /\ srv[s].Ake.clientMac = Nil


(* A server no GenerateKE2, SetAKEState or Flush has touched the AKE state *)
(* of.                                                                     *)
FreshAke(s) == srv[s].Ake = akeNewServer

(* C11: when the state serialized from a server s that has completed       *)
(* GenerateKE2 is handed to SetAKEState on a fresh server t of the same    *)
(* configuration, the call succeeds, t has the expected MAC and the        *)
(* session key of s, and LoginFinish gives on t the verdict it gives on s  *)
(* for every KE3.                                                          *)
C11_SaveRestore ==
    [][\A s, t \in DOMAIN srv :
         (/\ s # t
          /\ ret'.op = "SetAKEState"
          /\ ret'.s = t
          /\ FreshAke(t)
          /\ gh.srv[s].sess # << >>
          /\ ret'.in = SerializeState(srv[s]))
         => /\ ret'.err = "ok"
            /\ ExpectedMAC(srv'[t]) = ExpectedMAC(srv[s])
            /\ SessionKey(srv'[t]) = SessionKey(srv[s])
            /\ \A ke3 \in KE3Inputs(s) :
                  LoginFinish(srv'[t], conf, ke3) = LoginFinish(srv[s], conf, ke3)]_vars

(* The state of a server with an open session has been loaded into a       *)
(* server that never ran GenerateKE2, which now accepts the MAC the first  *)
(* server expects.                                                         *)
C11_RestoredOnFresh ==
    /\ ret.op = "SetAKEState"
    /\ ret.err = "ok"
    /\ \E s \in DOMAIN srv :
         /\ s # ret.s
         /\ gh.srv[ret.s].nke2 = 0
         /\ gh.srv[s].sess # << >>
         /\ ret.in = SerializeState(srv[s])
         /\ ExpectedMAC(srv[ret.s]) = gh.srv[s].sess[1].clientMac
         /\ LoginFinish(srv[ret.s], conf, [ClientMac |-> ExpectedMAC(srv[s])]) = "ok"
         /\ LoginFinish(srv[ret.s], conf, [ClientMac |-> JunkMAC(conf)]) # "ok"


ZeroEnvelope(c) == [j \in 1..(NonceLength + HashSize(c.MAC)) |-> Byte(0)]

(* C12: a fake record has an all-zero envelope of NonceLength + MAC.Size() *)
(* bytes and a masking key of KDF.Size() bytes, and GenerateKE2 on a       *)
(* server with key material accepts it: no error, and a KE2.               *)
C12_FakeRecordAccepted ==
    /\ \A r \in FakeRecords(conf) :
         /\ r.Envelope = ZeroEnvelope(conf)
         /\ Len(r.Envelope) = EnvelopeSize(conf)
         /\ Len(r.MaskingKey) = HashSize(conf.KDF)
    /\ (/\ ret.op = "GenerateKE2"
        /\ ret.in = ZeroEnvelope(conf)
        /\ srv[ret.s].keyMaterial # << >>)
       => /\ ret.err = "ok"
          /\ Len(ret.out) = 1
          /\ gh.srv[ret.s].sess # << >>
          /\ gh.srv[ret.s].sess[1].record \in FakeRecords(conf)
          /\ gh.srv[ret.s].sess[1].ke2 = ret.out[1]

(* GenerateKE2 has returned a KE2 for the fake record of "ghost". *)
C12_GhostAnswered ==
    /\ ret.op = "GenerateKE2"
    /\ ret.err = "ok"
    /\ ret.in = ZeroEnvelope(conf)
    /\ ret.out # << >>
    /\ gh.srv[ret.s].sess[1].record = FakeRecord(conf, GhostIdentifier, 0)

(* Server s answered the login the client has finished from a fake record. *)
FakeLogin(s) ==
    /\ cli.phase \in {"done", "failed"}
    /\ gh.srv[s].sess # << >>
    /\ gh.srv[s].sess[1].login = cli.n
    /\ gh.srv[s].sess[1].record \in FakeRecords(conf)

(* C13 as stated: a login against a fake record fails on the client with   *)
(* InvalidServerMAC, and the server does not reach Done in that session.   *)
C13_FakeRecordInvalidServerMAC ==
    \A s \in DOMAIN srv :
      /\ FakeLogin(s) => cli.err = "InvalidServerMAC"
      /\ (/\ ret.op = "LoginFinish" /\ ret.s = s
          /\ gh.srv[s].sess # << >>
          /\ gh.srv[s].sess[1].record \in FakeRecords(conf)) => ret.err # "ok"

(* C13 amended: a login against a fake record fails on the client with     *)
(* EnvelopeRecovery, whatever the password; the client sends no KE3 and    *)
(* has no session key, and LoginFinish does not succeed in that session.   *)
C13_FakeRecordEnvelopeRecovery ==
    \A s \in DOMAIN srv :
      /\ FakeLogin(s) =>
            /\ cli.phase = "failed"
            /\ cli.err = "EnvelopeRecovery"
            /\ cli.ke3 = << >>
            /\ cli.sessionKey = Nil
      /\ (/\ ret.op = "LoginFinish" /\ ret.s = s
          /\ gh.srv[s].sess # << >>
          /\ gh.srv[s].sess[1].record \in FakeRecords(conf)) => ret.err # "ok"

(* A client with the registered password has failed against the fake      *)
(* record of "ghost", and LoginFinish was then called in that session.     *)
C13_GhostLoginFailed ==
    \E s \in DOMAIN srv :
      /\ FakeLogin(s)
      /\ gh.srv[s].sess[1].record.CredentialIdentifier = GhostIdentifier
      /\ cli.pwd = CorrectHorse
      /\ cli.err = "EnvelopeRecovery"
      /\ ret.op = "LoginFinish" /\ ret.s = s /\ ret.err # "ok"

(* C14: among the well-formed logins that ended, those the server answered *)
(* from a fake record and those it answered from the stored record while   *)
(* the client used another password all ended with the same error kind,    *)
(* and none of them succeeded.                                             *)
C14_SameFailureMode ==
    \A a, b \in gh.ends : a.err = b.err /\ a.err # "ok"

(* A login against a fake record and a login with a wrong password against *)
(* the stored record have both ended.                                      *)
C14_BothKindsEnded ==
    /\ \E a \in gh.ends : a.fake
    /\ \E a \in gh.ends : ~a.fake


(* The caller supplied the key share seed and both nonces. *)
AllSupplied(options) ==
    /\ Len(options) = 1
    /\ options[1].KeyShareSeed # Nil
    /\ options[1].AKENonce # Nil
    /\ options[1].MaskingNonce # Nil

(* Server t holds a session that GenerateKE2 opened with the inputs of the *)
(* session sess: key material km, KE1, record and options.                 *)
SameInputs(t, km, sess) ==
    /\ gh.srv[t].sess # << >>
    /\ srv[t].keyMaterial = km
    /\ gh.srv[t].sess[1].bound.ke1 = sess.bound.ke1
    /\ gh.srv[t].sess[1].record = sess.record
    /\ gh.srv[t].sess[1].options = sess.options

(* C15 as stated: with the key share seed and the nonces supplied, a       *)
(* GenerateKE2 call returns the KE2, the expected client MAC and the       *)
(* session key of every earlier call with equal configuration, key         *)
(* material, KE1, record and options, whether that call was made on        *)
(* another Server object or on the same one.                               *)
C15_Deterministic ==
    [][\A s, t \in DOMAIN srv :
         (/\ ret'.op = "GenerateKE2" /\ ret'.s = s /\ ret'.err = "ok"
          /\ AllSupplied(gh'.srv[s].sess[1].options)
          /\ SameInputs(t, srv'[s].keyMaterial, gh'.srv[s].sess[1]))
         => /\ ret'.out[1] = gh.srv[t].sess[1].ke2
            /\ ExpectedMAC(srv'[s]) = ExpectedMAC(srv[t])
            /\ SessionKey(srv'[s]) = SessionKey(srv[t])]_vars

(* Two Server objects have each answered their first GenerateKE2 call,     *)
(* with equal inputs, and returned the same KE2, expected MAC and session  *)
(* key.                                                                    *)
C15_FirstCallsAgree ==
    \E s, t \in DOMAIN srv :
      /\ s # t
      /\ gh.srv[s].nke2 = 1 /\ gh.srv[t].nke2 = 1
      /\ gh.srv[s].sess # << >>
      /\ AllSupplied(gh.srv[s].sess[1].options)
      /\ SameInputs(t, srv[s].keyMaterial, gh.srv[s].sess[1])
      /\ gh.srv[s].sess[1].ke2 = gh.srv[t].sess[1].ke2
      /\ ExpectedMAC(srv[s]) = ExpectedMAC(srv[t])
      /\ SessionKey(srv[s]) = SessionKey(srv[t])
      /\ SessionKey(srv[s]) # Nil

(* C16: a call on one Server object leaves every other Server object as it *)
(* was, and two Server objects that have made the same number of           *)
(* GenerateKE2 calls hold the same transcript hasher and, when both have   *)
(* an open session, the same KE2, expected MAC and session key and give    *)
(* the same LoginFinish verdicts: what a server returns is what it returns *)
(* when its calls are run alone, however the calls of the other server are *)
(* interleaved.                                                            *)
C16_Independent ==
    [][/\ \A s, t \in DOMAIN srv :
            (ret'.s = s /\ t # s) => srv'[t] = srv[t] /\ gh'.srv[t] = gh.srv[t]
       /\ \A s, t \in DOMAIN srv :
            gh'.srv[s].nke2 = gh'.srv[t].nke2 =>
              /\ srv'[s].hash = srv'[t].hash
              /\ (gh'.srv[s].sess # << >> /\ gh'.srv[t].sess # << >>) =>
                    /\ gh'.srv[s].sess[1].ke2 = gh'.srv[t].sess[1].ke2
                    /\ ExpectedMAC(srv'[s]) = ExpectedMAC(srv'[t])
                    /\ SessionKey(srv'[s]) = SessionKey(srv'[t])
                    /\ \A ke3 \in KE3Inputs(s) \cup KE3Inputs(t) :
                          LoginFinish(srv'[s], conf, ke3) = LoginFinish(srv'[t], conf, ke3)]_vars

(* One server has flushed its first session and opened a second while the  *)
(* other server opened its first, and LoginFinish has accepted the MAC the *)
(* other server expects.                                                   *)
C16_Interleaved ==
    \E s, t \in DOMAIN srv :
      /\ s # t
      /\ gh.srv[s].nke2 = 2 /\ gh.srv[t].nke2 = 1
      /\ gh.srv[s].sess # << >> /\ gh.srv[t].sess # << >>
      /\ ret.op = "LoginFinish" /\ ret.s = t /\ ret.err = "ok"
      /\ ret.in = gh.srv[t].sess[1].clientMac


(* C17 as stated: for every configuration that passes verify (with any    *)
(* context: verify does not look at it), Serialize returns the encoding,   *)
(* and DeserializeConfiguration of the encoding succeeds and returns the   *)
(* six identifiers and the context.                                        *)
C17_ConfigurationRoundTrip ==
    verify(conf) = "ok" =>
      /\ ret.op = "Serialize" => ret.err = "ok"
      /\ (ret.op = "DeserializeConfiguration" /\ ret.in = saved) =>
            ret.err = "ok" /\ ret.out = <<conf>>

(* C17 amended: for every configuration that passes verify and whose       *)
(* context is at most 65,535 bytes long, Serialize returns the encoding,   *)
(* and DeserializeConfiguration of the encoding succeeds and returns the   *)
(* six identifiers and the context; for a longer context Serialize fails.  *)
C17_RoundTripWithinVectorLength ==
    verify(conf) = "ok" =>
      /\ ret.op = "Serialize" => (ret.err = "ok" <=> ret.in < Pow256(2))
      /\ (ret.op = "Serialize" /\ ret.err = "ok") =>
            /\ ret.out = saved
            /\ ret.out = Serialize(conf).out
            /\ DeserializeConfiguration(ret.out).err = "ok"
            /\ DeserializeConfiguration(ret.out).out = <<conf>>
      /\ (ret.op = "DeserializeConfiguration" /\ ret.in = saved) =>
            ret.err = "ok" /\ ret.out = <<conf>>

(* The encoding of a P-256 configuration with a context has been           *)
(* deserialized into that configuration.                                   *)
C17_P256RoundTrip ==
    /\ ret.op = "DeserializeConfiguration"
    /\ ret.in = Serialize(conf).out
    /\ ret.err = "ok"
    /\ ret.out = <<conf>>
    /\ conf.OPRF = P256Sha256 /\ conf.KDF = 7 /\ conf.MAC = 7 /\ conf.Hash = 5
    /\ conf.KSF = 0
    /\ conf.Context = <<Byte(1), Byte(2)>>

InvalidLengthErrors ==
    {"ErrConfigurationInvalidLength",
     "decoding the configuration context: errHeaderLength",
     "decoding the configuration context: errTotalLength"}

(* C18 as stated: DeserializeConfiguration rejects with an invalid-length  *)
(* error every input made from the encoding of a valid configuration by    *)
(* altering its length: cut below 8 bytes, cut within the context, or with *)
(* bytes appended.                                                         *)
C18_AlteredLengthRejected ==
    (/\ ret.op = "DeserializeConfiguration"
     /\ verify(conf) = "ok"
     /\ saved = Serialize(conf).out
     /\ Len(ret.in) # Len(saved)) =>
      ret.err \in InvalidLengthErrors /\ ret.out = << >>

(* An input shorter than 8 bytes and an input cut within its context are   *)
(* rejected with an invalid-length error.                                  *)
C18_TruncatedRejected ==
    /\ ret.op = "DeserializeConfiguration"
    /\ verify(conf) = "ok"
    /\ saved = Serialize(conf).out
    /\ Len(ret.in) = Len(saved) - 1
    /\ Len(ret.in) >= confIDsLength + 2
    /\ ret.err = "decoding the configuration context: errTotalLength"
    /\ DeserializeConfiguration(SubSeq(saved, 1, confIDsLength + 1)).err
         = "ErrConfigurationInvalidLength"

(* The identifiers are recognised: the groups, the three hashes, and a KSF *)
(* that is the identity or a recognised one.                               *)
Recognised(c) ==
    /\ c.OPRF \in {1, 3, 4, 5}
    /\ c.AKE \in {1, 3, 4, 5}
    /\ c.KDF \in {5, 6, 7}
    /\ c.MAC \in {5, 6, 7}
    /\ c.Hash \in {5, 6, 7}
    /\ c.KSF \in {0, 1, 2, 3}

(* C19: NewServer, Deserializer and GetFakeRecord on a configuration whose *)
(* identifiers are not all recognised, and DeserializeConfiguration on an  *)
(* input whose identifier bytes are not all recognised, return an error    *)
(* and no object.                                                          *)
C19_NoObjectFromUnrecognised ==
    /\ (/\ ret.op \in {"NewServer", "Deserializer", "GetFakeRecord"}
        /\ ret.in # << >>
        /\ ~Recognised(ret.in[1])) => ret.err # "ok" /\ ret.out = << >>
    /\ (/\ ret.op = "DeserializeConfiguration"
        /\ Len(ret.in) >= confIDsLength
        /\ ~Recognised(DecodedConfiguration(ret.in, Nil))) => ret.err # "ok" /\ ret.out = << >>
    /\ (/\ ret.op \in {"NewServer", "Deserializer", "GetFakeRecord", "DeserializeConfiguration"}
        /\ ret.err = "ok") => Len(ret.out) = 1

(* NewServer has refused a configuration whose KDF identifier 261 has the  *)
(* low byte of SHA-256.                                                    *)
C19_WideIdentifierRefused ==
    /\ ret.op = "NewServer"
    /\ ret.in # << >>
    /\ ret.in[1].KDF = 261
    /\ Recognised([ret.in[1] EXCEPT !.KDF = ToByte(261)])
    /\ ret.err = "errInvalidKDFid"
    /\ ret.out = << >>


(* The key the server evaluates the OPRF under for a credential identifier. *)
OPRFKey(c, credentialIdentifier) ==
    DeriveKey(c.OPRF,
              KDFExpand(c.KDF, OPRFSeed(c), SuffixString(credentialIdentifier, TagExpandOPRF),
                        SeedLength),
              TagDeriveKeyPair)

(* EncodeVec(x) || EncodeVec(k.HashToGroup(x)) || "Finalize" *)
OPRFOutputInput(c, x, k) ==
    Concat3(EncodeVector(x),
            EncodeVector(SerializePoint(
                Multiply(HashToGroup(c.OPRF, x, TagHashToGroup \o contextString(c.OPRF)), k))),
            TagOPRFFinalize)

(* C20: for every input x, non-zero blind b and server key k, what         *)
(* Finalize returns for the evaluation of the blinded x is the hash of     *)
(* EncodeVec(x) || EncodeVec(k.HashToGroup(x)) || "Finalize", and with     *)
(* any other blind Finalize hashes the same string.                        *)
C20_OPRFCorrect ==
    ret.op = "OPRF" =>
      /\ \E i \in 1..Len(oracle) :
           oracle[i] = OPRFOutputInput(conf, ret.in[1], OPRFKey(conf, ret.in[3]))
      /\ ret.out = HashSum(oracle, OPRFHash(conf.OPRF),
                           OPRFOutputInput(conf, ret.in[1], OPRFKey(conf, ret.in[3])))
      /\ \A b \in OPRFBlinds :
           OPRFFinalizeInput(ret.in[1], b,
                             OPRFEvaluate(OPRFKey(conf, ret.in[3]),
                                          OPRFBlind(conf.OPRF, ret.in[1], b)))
             = OPRFOutputInput(conf, ret.in[1], OPRFKey(conf, ret.in[3]))

(* The OPRF has been run on one input under one key with two blinds and on *)
(* another input, and the last run returned a digest of the hash of the    *)
(* suite.                                                                  *)
C20_TwoBlindsOneOutput ==
    /\ ret.op = "OPRF"
    /\ ret.in[2] = ClientBlind(2)
    /\ Len(oracle) = 2
    /\ ret.out = Block(<<"hash", OPRFHash(conf.OPRF), 1>>, HashSize(OPRFHash(conf.OPRF)))
    /\ OPRFBlind(conf.OPRF, ret.in[1], ClientBlind(2)) # OPRFBlind(conf.OPRF, ret.in[1], ClientBlind(1))

(* The server with its identity spelled out: an absent server identity is  *)
(* the encoding of the server public key.                                  *)
ExplicitServer(sv) ==
    [sv EXCEPT !.keyMaterial[1].serverIdentity =
        IF @ = Nil THEN sv.keyMaterial[1].serverPublicKey ELSE @]

(* The record with its identity spelled out: an absent client identity is  *)
(* the encoding of the client public key.                                  *)
ExplicitRecord(record) ==
    [record EXCEPT !.ClientIdentity = IF @ = Nil THEN SerializePoint(record.PublicKey) ELSE @]

(* C21: identity substitution.  A GenerateKE2 that succeeds binds the      *)
(* transcript to the server public key encoding when the server identity   *)
(* is absent and to the client public key encoding when the client         *)
(* identity is absent, and returns the KE2 (with its server MAC) and       *)
(* stores the expected client MAC and the session key that the same call   *)
(* returns and stores when the absent identities are set to these          *)
(* encodings.                                                              *)
C21_IdentitySubstitution ==
    [][\A s \in DOMAIN srv :
         (ret'.op = "GenerateKE2" /\ ret'.s = s /\ ret'.err = "ok") =>
           /\ gh'.srv[s].sess[1].bound.ids =
                 IF srv[s].keyMaterial[1].serverIdentity = Nil
                 THEN srv[s].keyMaterial[1].serverPublicKey
                 ELSE srv[s].keyMaterial[1].serverIdentity
           /\ gh'.srv[s].sess[1].bound.idc =
                 IF gh'.srv[s].sess[1].record.ClientIdentity = Nil
                 THEN SerializePoint(gh'.srv[s].sess[1].record.PublicKey)
                 ELSE gh'.srv[s].sess[1].record.ClientIdentity
           /\ \E r \in {GenerateKE2(oracle, ExplicitServer(srv[s]), conf,
                                    gh'.srv[s].sess[1].bound.ke1,
                                    ExplicitRecord(gh'.srv[s].sess[1].record),
                                    gh'.srv[s].sess[1].options, gh'.srv[s].nke2)} :
                 /\ r.err = "ok"
                 /\ r.ke2 = ret'.out
                 /\ r.ke2[1].ServerMac = ret'.out[1].ServerMac
                 /\ ExpectedMAC(r.srv) = ExpectedMAC(srv'[s])
                 /\ SessionKey(r.srv) = SessionKey(srv'[s])]_vars

(* GenerateKE2 has answered on a server without server identity for a      *)
(* record without client identity, and bound the transcript to the two     *)
(* public key encodings.                                                   *)
C21_BothIdentitiesAbsent ==
    /\ ret.op = "GenerateKE2"
    /\ ret.err = "ok"
    /\ srv[ret.s].keyMaterial[1].serverIdentity = Nil
    /\ gh.srv[ret.s].sess[1].record = store[1]
    /\ store[1].ClientIdentity = Nil
    /\ gh.srv[ret.s].sess[1].bound.ids = GoodPK(conf)
    /\ gh.srv[ret.s].sess[1].bound.idc = SerializePoint(store[1].PublicKey)
    /\ ExpectedMAC(srv[ret.s]) # Nil

(* C22: on a server with key material, GenerateKE2 with a record whose     *)
(* envelope is not NonceLength + MAC.Size() bytes long returns             *)
(* ErrInvalidEnvelopeLength and no KE2 and leaves the AKE state as it was; *)
(* and every record GenerateKE2 accepts has an envelope of                 *)
(* NonceLength + MAC.Size() bytes and a masking key of KDF.Size() bytes.   *)
C22_RecordInvariant ==
    [][\A s \in DOMAIN srv :
         (ret'.op = "GenerateKE2" /\ ret'.s = s /\ srv[s].keyMaterial # << >>) =>
           /\ Len(ret'.in) # EnvelopeSize(conf) =>
                 /\ ret'.err = "ErrInvalidEnvelopeLength"
                 /\ ret'.out = << >>
                 /\ srv'[s].Ake = srv[s].Ake
           /\ ret'.err = "ok" =>
                 /\ Len(gh'.srv[s].sess[1].record.Envelope) = EnvelopeSize(conf)
                 /\ Len(gh'.srv[s].sess[1].record.MaskingKey) = HashSize(conf.KDF)]_vars

(* GenerateKE2 has refused a record with a long envelope on a server that  *)
(* holds the session of an earlier call, and the session is as it was.     *)
C22_LongEnvelopeRefused ==
    /\ ret.op = "GenerateKE2"
    /\ ret.err = "ErrInvalidEnvelopeLength"
    /\ ret.out = << >>
    /\ Len(ret.in) = EnvelopeSize(conf) + 1
    /\ gh.srv[ret.s].nke2 = 2
    /\ gh.srv[ret.s].sess # << >>
    /\ ExpectedMAC(srv[ret.s]) = gh.srv[ret.s].sess[1].clientMac
    /\ ExpectedMAC(srv[ret.s]) # Nil

(* The input keying material a session key was extracted from: the session *)
(* key is Expand(Extract(nil, ikm), label).                                *)
IKMOf(sessionKey) == sessionKey[1][3][1][4]

(* The serialized product of an element and a scalar. *)
DH(el, s) == SerializePoint(Multiply(el, s))

(* The scalar of a public key Base.sk. *)
SecretOf(pk) == CHOOSE k \in BagToSet(pk.e) : TRUE

(* Server s holds the session its last GenerateKE2 opened. *)
OpenSession(s) ==
    /\ gh.srv[s].sess # << >>
    /\ srv[s].keyMaterial # << >>
    /\ srv[s].Ake.ephemeralSecretKey # << >>
    /\ ExpectedMAC(srv[s]) = gh.srv[s].sess[1].clientMac

UserKey(c, oprfSeed, credentialIdentifier) ==
    DeriveKey(c.OPRF,
              KDFExpand(c.KDF, oprfSeed, SuffixString(credentialIdentifier, TagExpandOPRF),
                        SeedLength),
              TagDeriveKeyPair)

(* The seeds and credential identifiers keys are derived from. *)
UserKeyInputs(c) ==
    {OPRFSeed(c), OtherSeed(c)} \X {CredentialIdentifier, GhostIdentifier}

(* C24: the evaluated message of a GenerateKE2 is the blinded message of   *)
(* the KE1 multiplied by the key derived from the server's seed and the    *)
(* record's credential identifier alone, whatever the record, the options  *)
(* and the sessions before it; RegistrationResponse with this seed,        *)
(* credential identifier and blinded message returns the same evaluated    *)
(* message; and two different pairs of seed and credential identifier give *)
(* different keys.                                                         *)
C24_UserKey ==
    (ret.op = "GenerateKE2" /\ ret.err = "ok") =>
      /\ ret.out[1].CredentialResponse.EvaluatedMessage =
           OPRFEvaluate(UserKey(conf, srv[ret.s].keyMaterial[1].oprfSeed,
                                gh.srv[ret.s].sess[1].record.CredentialIdentifier),
                        gh.srv[ret.s].sess[1].bound.ke1.CredentialRequest.BlindedMessage)
      /\ ret.out[1].CredentialResponse.EvaluatedMessage =
           RegistrationResponse(conf, gh.srv[ret.s].sess[1].bound.ke1.CredentialRequest,
                                ServerPublicKey(conf),
                                gh.srv[ret.s].sess[1].record.CredentialIdentifier,
                                srv[ret.s].keyMaterial[1].oprfSeed).EvaluatedMessage
      /\ \A a, b \in UserKeyInputs(conf) :
           a # b =>
             /\ UserKey(conf, a[1], a[2]) # UserKey(conf, b[1], b[2])
             /\ oprfResponse(conf, gh.srv[ret.s].sess[1].bound.ke1.CredentialRequest.BlindedMessage,
                             a[1], a[2])
                  # oprfResponse(conf, gh.srv[ret.s].sess[1].bound.ke1.CredentialRequest.BlindedMessage,
                                 b[1], b[2])

(* A server holding another seed than the one of the registration has      *)
(* answered for the registered credential identifier, under another key    *)
(* than the registration was answered under.                               *)
C24_OtherSeedOtherKey ==
    /\ ret.op = "GenerateKE2"
    /\ ret.err = "ok"
    /\ gh.srv[ret.s].nke2 = 2
    /\ srv[ret.s].keyMaterial[1].oprfSeed = OtherSeed(conf)
    /\ gh.srv[ret.s].sess[1].record.CredentialIdentifier = CredentialIdentifier
    /\ ret.out[1].CredentialResponse.EvaluatedMessage #
         RegistrationResponse(conf, gh.srv[ret.s].sess[1].bound.ke1.CredentialRequest,
                              ServerPublicKey(conf), CredentialIdentifier,
                              OPRFSeed(conf)).EvaluatedMessage

(* C25: a server holds key material only with a public key of the element *)
(* length, and in every GenerateKE2 that reaches the masking step the      *)
(* string server public key || envelope that is XORed has the length of    *)
(* the masking pad, ElementLength + EnvelopeSize, which is the length of   *)
(* the masked response.                                                    *)
C25_MaskingLengths ==
    /\ \A s \in DOMAIN srv :
         srv[s].keyMaterial # << >> =>
           Len(srv[s].keyMaterial[1].serverPublicKey) = ElementLength(conf.AKE)
    /\ (ret.op = "GenerateKE2" /\ ret.err = "ok") =>
         /\ Len(gh.srv[ret.s].sess[1].record.Envelope) = EnvelopeSize(conf)
         /\ Len(srv[ret.s].keyMaterial[1].serverPublicKey \o gh.srv[ret.s].sess[1].record.Envelope)
              = Len(MaskPad(conf, ret.out[1].CredentialResponse.MaskingNonce,
                            gh.srv[ret.s].sess[1].record.MaskingKey))
         /\ Len(srv[ret.s].keyMaterial[1].serverPublicKey \o gh.srv[ret.s].sess[1].record.Envelope)
              = ElementLength(conf.AKE) + EnvelopeSize(conf)
         /\ Len(ret.out[1].CredentialResponse.MaskedResponse)
              = ElementLength(conf.AKE) + EnvelopeSize(conf)

(* GenerateKE2 has masked the P-256 public key and the envelope of a       *)
(* record whose masking key is short, on a server whose SetKeyMaterial     *)
(* refuses a public key that is too long.                                  *)
C25_MaskedAfterRefusedKey ==
    /\ ret.op = "GenerateKE2"
    /\ ret.err = "ok"
    /\ conf.AKE = P256Sha256
    /\ gh.srv[ret.s].sess[1].record = ShortMaskingKey(store[1])
    /\ Len(ret.out[1].CredentialResponse.MaskedResponse) = P256Length + NonceLength + Sha256Size
    /\ SetKeyMaterial(srv[ret.s], conf, Nil, GoodSK(conf), LongPK(conf), OPRFSeed(conf)).err
         = "ErrInvalidPksLength"

(* C26: SetAKEState on a server whose expected client MAC or session       *)
(* secret is not empty fails and leaves both as they were, the error       *)
(* being errStateNotEmpty for every buffer of the right length (and        *)
(* ErrInvalidState for the others); it succeeds only on a server whose     *)
(* AKE state is empty, fresh or flushed.                                   *)
C26_SetAKEStateNotEmpty ==
    [][\A s \in DOMAIN srv :
         (ret'.op = "SetAKEState" /\ ret'.s = s) =>
           /\ (ExpectedMAC(srv[s]) # Nil \/ SessionKey(srv[s]) # Nil) =>
                 /\ ret'.err # "ok"
                 /\ Len(ret'.in) = StateSize(conf) => ret'.err = "errStateNotEmpty"
                 /\ ExpectedMAC(srv'[s]) = ExpectedMAC(srv[s])
                 /\ SessionKey(srv'[s]) = SessionKey(srv[s])
           /\ ret'.err = "ok" =>
                 /\ ExpectedMAC(srv[s]) = Nil
                 /\ SessionKey(srv[s]) = Nil
                 /\ gh.srv[s].sess = << >>
                 /\ ExpectedMAC(srv'[s]) \o SessionKey(srv'[s]) = ret'.in]_vars

(* SetAKEState has been refused on a server that never ran GenerateKE2 and *)
(* holds the state an earlier SetAKEState loaded.                          *)
C26_SecondSetAKEStateRefused ==
    /\ ret.op = "SetAKEState"
    /\ ret.err = "errStateNotEmpty"
    /\ gh.srv[ret.s].nke2 = 0
    /\ ret.in = saved
    /\ SerializeState(srv[ret.s]) = JunkState(conf)

(* C27: LoginFinish succeeds only on a server that holds an expected       *)
(* client MAC, set by GenerateKE2 or SetAKEState and not flushed since: on *)
(* a server without one, fresh or flushed, it returns an error for every   *)
(* KE3, the KE3 with an empty client MAC included.                         *)
C27_LoginFinishNeedsSession ==
    (ret.op = "LoginFinish" /\ ExpectedMAC(srv[ret.s]) = Nil) => ret.err # "ok"

(* On a server that has never held a session, LoginFinish has refused a    *)
(* KE3 with a client MAC of the right length.                              *)
C27_FreshServerRefusesMAC ==
    /\ ret.op = "LoginFinish"
    /\ srv[ret.s].Ake = akeNewServer
    /\ gh.srv[ret.s].nke2 = 0
    /\ ret.in = JunkMAC(conf)
    /\ ret.err = "ErrAkeInvalidClientMac"

(* C28: LoginFinish is a pure check.  Whether it succeeds or fails, the    *)
(* expected client MAC, the session secret and the key material of the     *)
(* server are after the call what they were before it, SessionKey()        *)
(* returns the same value, and LoginFinish gives for the same KE3, and for *)
(* every other KE3, the verdict it gave or would have given before.        *)
C28_LoginFinishPure ==
    [][\A s \in DOMAIN srv :
         (ret'.op = "LoginFinish" /\ ret'.s = s) =>
           /\ ExpectedMAC(srv'[s]) = ExpectedMAC(srv[s])
           /\ SessionKey(srv'[s]) = SessionKey(srv[s])
           /\ srv'[s].Ake = srv[s].Ake
           /\ srv'[s].keyMaterial = srv[s].keyMaterial
           /\ LoginFinish(srv'[s], conf, [ClientMac |-> ret'.in]) = ret'.err
           /\ \A ke3 \in KE3Inputs(s) :
                LoginFinish(srv'[s], conf, ke3) = LoginFinish(srv[s], conf, ke3)]_vars

(* LoginFinish has accepted the expected MAC of an open session, and the   *)
(* server still holds the session key and accepts the same KE3 again.      *)
C28_AcceptedAndKept ==
    /\ ret.op = "LoginFinish"
    /\ ret.err = "ok"
    /\ ret.in # Nil
    /\ gh.srv[ret.s].sess # << >>
    /\ ExpectedMAC(srv[ret.s]) = ret.in
    /\ SessionKey(srv[ret.s]) # Nil
    /\ LoginFinish(srv[ret.s], conf, [ClientMac |-> ret.in]) = "ok"

(* C29: in every state the Server API reaches, the expected client MAC and *)
(* the session secret of a server are both empty, or both set with         *)
(* MAC.Size() and KDF.Size() bytes.                                        *)
C29_StateShape ==
    \A s \in DOMAIN srv :
      \/ /\ ExpectedMAC(srv[s]) = Nil
         /\ SessionKey(srv[s]) = Nil
      \/ /\ Len(ExpectedMAC(srv[s])) = HashSize(conf.MAC)
         /\ Len(SessionKey(srv[s])) = HashSize(conf.KDF)

(* SetAKEState has loaded a buffer into a flushed server whose MAC and KDF *)
(* differ in size, after a GenerateKE2 had set both values.                *)
C29_LoadedAfterFlush ==
    /\ ret.op = "SetAKEState"
    /\ ret.err = "ok"
    /\ gh.srv[ret.s].nke2 > 0
    /\ HashSize(conf.MAC) = Sha256Size
    /\ HashSize(conf.KDF) = Sha512Size
    /\ Len(ExpectedMAC(srv[ret.s])) = Sha256Size
    /\ Len(SessionKey(srv[ret.s])) = Sha512Size
    /\ Len(saved) = Sha256Size + Sha512Size

(* C30: a GenerateKE2 that returns an error returns ErrNoServerKeyMaterial *)
(* or ErrInvalidEnvelopeLength and no KE2, and leaves the expected client  *)
(* MAC, the session secret, the ephemeral key and the nonce of the server  *)
(* as they were, so that SessionKey() and ExpectedMAC() return after it    *)
(* what they returned before.                                              *)
C30_FailedGenerateKE2KeepsState ==
    [][\A s \in DOMAIN srv :
         (ret'.op = "GenerateKE2" /\ ret'.s = s /\ ret'.err # "ok") =>
           /\ ret'.err \in {"ErrNoServerKeyMaterial", "ErrInvalidEnvelopeLength"}
           /\ ret'.out = << >>
           /\ srv'[s].Ake.clientMac = srv[s].Ake.clientMac
           /\ srv'[s].Ake.sessionSecret = srv[s].Ake.sessionSecret
           /\ srv'[s].Ake.ephemeralSecretKey = srv[s].Ake.ephemeralSecretKey
           /\ srv'[s].Ake.nonce = srv[s].Ake.nonce
           /\ SessionKey(srv'[s]) = SessionKey(srv[s])
           /\ ExpectedMAC(srv'[s]) = ExpectedMAC(srv[s])
           /\ gh'.srv[s].sess = gh.srv[s].sess]_vars

(* GenerateKE2 has failed for a short envelope on a server that holds the  *)
(* session of its first GenerateKE2, which LoginFinish still accepts the   *)
(* expected MAC of.                                                        *)
C30_SessionSurvivesFailure ==
    /\ ret.op = "GenerateKE2"
    /\ ret.err = "ErrInvalidEnvelopeLength"
    /\ Len(ret.in) = EnvelopeSize(conf) - 1
    /\ gh.srv[ret.s].nke2 = 2
    /\ gh.srv[ret.s].sess # << >>
    /\ srv[ret.s].Ake.ephemeralSecretKey # << >>
    /\ ExpectedMAC(srv[ret.s]) = gh.srv[ret.s].sess[1].clientMac
    /\ SessionKey(srv[ret.s]) # Nil
    /\ LoginFinish(srv[ret.s], conf, [ClientMac |-> gh.srv[ret.s].sess[1].clientMac]) = "ok"

====
